---- MODULE Spec2Model ----
(***************************************************************************)
(* Model of the install-msvc workflow of the vssetup repository            *)
(* (crates/install-msvc/src/main.rs) and of the classification functions   *)
(* it is built from.                                                       *)
(*                                                                         *)
(* Strings are sequences of one-character strings, so that splitting,      *)
(* trimming, parsing and comparing are computed character by character.    *)
(* A u32 is a pair <<hi, lo>> of 16-bit limbs (value hi * 2^16 + lo).      *)
(***************************************************************************)
EXTENDS Integers, Sequences, FiniteSets, TLC

\* Option<T>: None, or Some(x) holding one value.  A Result whose error value
\* the caller drops (`.ok()`) is modelled the same way: Err is None.
None == <<>>

Some(x) == <<x>>

unwrap(o) == o[1]

\* ------------------------------------------------------------------------
\* Characters and strings
\* ------------------------------------------------------------------------

\* The printable ASCII characters in code order, starting at code 32 (the
\* double quote, backslash and backtick, which no modelled string holds, are
\* written as names).
Printable ==
    <<" ","!","DQUOTE","#","$","%","&","'","(",")","*","+",",","-",".","/",
      "0","1","2","3","4","5","6","7","8","9",":",";","<","=",">","?",
      "@","A","B","C","D","E","F","G","H","I","J","K","L","M","N","O",
      "P","Q","R","S","T","U","V","W","X","Y","Z","[","BACKSLASH","]","^","_",
      "BACKTICK","a","b","c","d","e","f","g","h","i","j","k","l","m","n","o",
      "p","q","r","s","t","u","v","w","x","y","z","{","|","}","~">>

ControlChars == {"\t", "\n", "\r"}

Chars == {Printable[i] : i \in 1..Len(Printable)} \cup ControlChars

\* The byte value of a character (u8 as used by str's Ord and by parse).
Byte ==
    [c \in Chars |->
        IF c = "\t" THEN 9
        ELSE IF c = "\n" THEN 10
        ELSE IF c = "\r" THEN 13
        ELSE 31 + (CHOOSE i \in 1..Len(Printable) : Printable[i] = c)]

\* Ordering of two integers: "Less", "Equal" or "Greater".
cmp_int(x, y) == IF x < y THEN "Less" ELSE IF x > y THEN "Greater" ELSE "Equal"

\* Ordering of two strings, as <str as Ord>::cmp: bytewise lexicographic, the
\* first differing byte deciding, a proper prefix being less.
str_cmp(a, b) ==
    LET n == IF Len(a) < Len(b) THEN Len(a) ELSE Len(b)
        diff == {i \in 1..n : a[i] # b[i]}
    IN  IF diff = {} THEN cmp_int(Len(a), Len(b))
        ELSE LET k == CHOOSE i \in diff : \A j \in diff : i <= j
             IN  cmp_int(Byte[a[k]], Byte[b[k]])

\* str::split(sep).collect(): the segments between the separators; a string
\* with k separators has k + 1 segments, empty ones included.
split(s, sep) ==
    LET seps == {i \in 1..Len(s) : s[i] = sep}
        n == Cardinality(seps)
        at(k) == CHOOSE i \in seps : Cardinality({j \in seps : j < i}) = k - 1
    IN  [k \in 1..(n + 1) |->
            SubSeq(s, IF k = 1 THEN 1 ELSE at(k - 1) + 1,
                      IF k = n + 1 THEN Len(s) ELSE at(k) - 1)]

\* str::split_once(sep): the text before and after the first separator.
split_once(s, sep) ==
    LET seps == {i \in 1..Len(s) : s[i] = sep}
    IN  IF seps = {} THEN None
        ELSE LET k == CHOOSE i \in seps : \A j \in seps : i <= j
             IN  Some(<<SubSeq(s, 1, k - 1), SubSeq(s, k + 1, Len(s))>>)

Digits == {"0","1","2","3","4","5","6","7","8","9"}

DigitVal(c) == Byte[c] - 48

Limb == 65536

\* One step of the checked accumulation of from_str_radix, in 16-bit limbs:
\* Some(acc * 10 + d), or None when the result does not fit in `limbs` limbs.
mul10_add(acc, d, limbs) ==
    LET lo == acc[2] * 10 + d
        hi == acc[1] * 10 + (lo \div Limb)
    IN  IF hi >= Limb \/ (limbs = 1 /\ hi > 0) THEN None
        ELSE Some(<<hi, lo % Limb>>)

RECURSIVE accumulate(_, _, _)
accumulate(acc, ds, limbs) ==
    IF ds = <<>> THEN Some(acc)
    ELSE IF Head(ds) \notin Digits THEN None
    ELSE LET next == mul10_add(acc, DigitVal(Head(ds)), limbs)
         IN  IF next = None THEN None
             ELSE accumulate(unwrap(next), Tail(ds), limbs)

\* <unsigned as FromStr>::from_str: an optional leading '+', then one or
\* more decimal digits, the value fitting the type.  None stands for Err.
from_str_unsigned(s, limbs) ==
    IF s = <<>> THEN None
    ELSE IF s = <<"+">> \/ s = <<"-">> THEN None
    ELSE LET ds == IF Head(s) = "+" THEN Tail(s) ELSE s
         IN  accumulate(<<0, 0>>, ds, limbs)

\* str::parse::<u32>().ok(): Some(<<hi, lo>>), the value in limbs, or None.
parse_u32(s) == from_str_unsigned(s, 2)

\* str::parse::<u16>().ok(): Some(value), or None.
parse_u16(s) ==
    LET r == from_str_unsigned(s, 1)
    IN  IF r = None THEN None ELSE Some(unwrap(r)[2])

\* Ordering of two u32 values.
u32_cmp(a, b) ==
    IF a[1] # b[1] THEN cmp_int(a[1], b[1]) ELSE cmp_int(a[2], b[2])

\* ------------------------------------------------------------------------
\* Components and products (main.rs)
\* ------------------------------------------------------------------------

Microsoft == <<"M","i","c","r","o","s","o","f","t">>
VisualStudio == <<"V","i","s","u","a","l","S","t","u","d","i","o">>
Component == <<"C","o","m","p","o","n","e","n","t">>
Windows10SDK == <<"W","i","n","d","o","w","s","1","0","S","D","K">>
Windows11SDK == <<"W","i","n","d","o","w","s","1","1","S","D","K">>

MSVC_X86_X64 ==
    <<"M","i","c","r","o","s","o","f","t",".","V","i","s","u","a","l","S","t","u","d","i","o",".","C","o","m","p","o","n","e","n","t",".","V","C",".","T","o","o","l","s",".","x","8","6",".","x","6","4">>

MSVC_ARM64 ==
    <<"M","i","c","r","o","s","o","f","t",".","V","i","s","u","a","l","S","t","u","d","i","o",".","C","o","m","p","o","n","e","n","t",".","V","C",".","T","o","o","l","s",".","A","R","M","6","4">>

PRODUCT_COMMUNITY ==
    <<"M","i","c","r","o","s","o","f","t",".","V","i","s","u","a","l","S","t","u","d","i","o",".","P","r","o","d","u","c","t",".","C","o","m","m","u","n","i","t","y">>

PRODUCT_BUILD_TOOLS ==
    <<"M","i","c","r","o","s","o","f","t",".","V","i","s","u","a","l","S","t","u","d","i","o",".","P","r","o","d","u","c","t",".","B","u","i","l","d","T","o","o","l","s">>

PRODUCT_PROFESSIONAL ==
    <<"M","i","c","r","o","s","o","f","t",".","V","i","s","u","a","l","S","t","u","d","i","o",".","P","r","o","d","u","c","t",".","P","r","o","f","e","s","s","i","o","n","a","l">>

PRODUCT_ENTERPRISE ==
    <<"M","i","c","r","o","s","o","f","t",".","V","i","s","u","a","l","S","t","u","d","i","o",".","P","r","o","d","u","c","t",".","E","n","t","e","r","p","r","i","s","e">>

\* enum Product, with its discriminants, which the derived Ord compares.
Product == {"BuildTools", "Enterprise", "Professional", "Community"}

Product_discriminant(p) ==
    CASE p = "BuildTools" -> 1
      [] p = "Enterprise" -> 2
      [] p = "Professional" -> 3
      [] p = "Community" -> 4

Product_from_str(product) ==
    CASE product = PRODUCT_COMMUNITY -> Some("Community")
      [] product = PRODUCT_PROFESSIONAL -> Some("Professional")
      [] product = PRODUCT_ENTERPRISE -> Some("Enterprise")
      [] product = PRODUCT_BUILD_TOOLS -> Some("BuildTools")
      [] OTHER -> None

\* Sdk::from_id accepting identifiers of more than 5 segments.
Sdk_from_id_at_least_5(id) ==
    LET parts == split(id, ".")
    IN  IF /\ Len(parts) >= 5
           /\ SubSeq(parts, 1, 3) = <<Microsoft, VisualStudio, Component>>
           /\ parts[4] \in {Windows10SDK, Windows11SDK}
           /\ parse_u32(parts[5]) # None
        THEN Some([version |-> unwrap(parse_u32(parts[5])), id |-> id])
        ELSE None

\* Sdk::from_id: Some(Sdk { version, id }) or None.
Sdk_from_id(id) ==
    LET parts == split(id, ".")
    IN  IF /\ Len(parts) = 5
           /\ SubSeq(parts, 1, 3) = <<Microsoft, VisualStudio, Component>>
           /\ parts[4] \in {Windows10SDK, Windows11SDK}
           /\ parse_u32(parts[5]) # None
        THEN Some([version |-> unwrap(parse_u32(parts[5])), id |-> id])
        ELSE None

\* The order of Sdk by version alone.
Sdk_cmp_version_only(a, b) == u32_cmp(a.version, b.version)

\* The derived Ord of Sdk: by version, then by id.
Sdk_cmp(a, b) ==
    IF u32_cmp(a.version, b.version) # "Equal" THEN u32_cmp(a.version, b.version)
    ELSE str_cmp(a.id, b.id)

\* a > b on Option<Sdk>: None is less than every Some.
Option_Sdk_gt(a, b) ==
    IF a = None THEN FALSE
    ELSE IF b = None THEN TRUE
    ELSE Sdk_cmp(unwrap(a), unwrap(b)) = "Greater"

\* Msvc::from_id
Msvc_from_id(id) ==
    CASE id = MSVC_X86_X64 -> Some("X86X64")
      [] id = MSVC_ARM64 -> Some("Arm64")
      [] OTHER -> None

\* Msvc::from_rust_arch
Msvc_from_rust_arch(a) == IF a = "aarch64" THEN "Arm64" ELSE "X86X64"

\* Msvc::id
Msvc_id(m) == IF m = "X86X64" THEN MSVC_X86_X64 ELSE MSVC_ARM64

\* The loop body without the comparison to the running architecture.
classify_package_any_arch(acc, pkg, a) ==
    IF pkg = None THEN acc
    ELSE LET id == unwrap(pkg)
             component == Sdk_from_id(id)
         IN  IF component # None /\ Option_Sdk_gt(component, acc.sdk)
             THEN [acc EXCEPT !.sdk = component]
             ELSE IF Msvc_from_id(id) # None
             THEN [acc EXCEPT !.msvc = Msvc_from_id(id)]
             ELSE acc

\* The loop body keeping the SDK seen last instead of the greatest.
classify_package_last_sdk(acc, pkg, a) ==
    IF pkg = None THEN acc
    ELSE LET id == unwrap(pkg)
             component == Sdk_from_id(id)
         IN  IF component # None
             THEN [acc EXCEPT !.sdk = component]
             ELSE IF Msvc_from_id(id) # None
                     /\ unwrap(Msvc_from_id(id)) = Msvc_from_rust_arch(a)
             THEN [acc EXCEPT !.msvc = Msvc_from_id(id)]
             ELSE acc

\* The loop body trying the toolset rule only while no SDK is kept.
classify_package_toolset_before_sdk(acc, pkg, a) ==
    IF pkg = None THEN acc
    ELSE LET id == unwrap(pkg)
             component == Sdk_from_id(id)
         IN  IF component # None /\ Option_Sdk_gt(component, acc.sdk)
             THEN [acc EXCEPT !.sdk = component]
             ELSE IF acc.sdk = None /\ Msvc_from_id(id) # None
                     /\ unwrap(Msvc_from_id(id)) = Msvc_from_rust_arch(a)
             THEN [acc EXCEPT !.msvc = Msvc_from_id(id)]
             ELSE acc

\* The body of the loop over an instance's packages (main.rs 78-87): `acc`
\* holds the locals msvc and sdk, `pkg` is package.GetId().ok().
classify_package(acc, pkg, a) ==
    IF pkg = None THEN acc
    ELSE LET id == unwrap(pkg)
             component == Sdk_from_id(id)
         IN  IF component # None /\ Option_Sdk_gt(component, acc.sdk)
             THEN [acc EXCEPT !.sdk = component]
             ELSE IF Msvc_from_id(id) # None
                     /\ unwrap(Msvc_from_id(id)) = Msvc_from_rust_arch(a)
             THEN [acc EXCEPT !.msvc = Msvc_from_id(id)]
             ELSE acc

\* The whole loop over the packages, from msvc = None, sdk = None.
RECURSIVE classify_packages(_, _, _)
classify_packages(acc, packages, a) ==
    IF packages = <<>> THEN acc
    ELSE classify_packages(classify_package(acc, Head(packages), a),
                           Tail(packages), a)

\* ------------------------------------------------------------------------
\* Inputs: what the foreign objects, the host and the user can provide
\* ------------------------------------------------------------------------

\* [..].join(sep): the inverse of split, used to write identifiers down.
RECURSIVE join(_, _)
join(parts, sep) ==
    IF parts = <<>> THEN <<>>
    ELSE IF Len(parts) = 1 THEN parts[1]
    ELSE parts[1] \o <<sep>> \o join(Tail(parts), sep)

\* Microsoft.VisualStudio.Component.<family>.<last>
ComponentId(family, last) ==
    join(<<Microsoft, VisualStudio, Component, family, last>>, ".")

SDK10_19041 == ComponentId(Windows10SDK, <<"1","9","0","4","1">>)
SDK10_18362 == ComponentId(Windows10SDK, <<"1","8","3","6","2">>)
SDK10_17763 == ComponentId(Windows10SDK, <<"1","7","7","6","3">>)
SDK10_22000 == ComponentId(Windows10SDK, <<"2","2","0","0","0">>)
SDK11_22000 == ComponentId(Windows11SDK, <<"2","2","0","0","0">>)

\* The identifiers a package list or an export can hold: SDK components,
\* both toolsets, and near misses of the SDK rule.
IdPool ==
    { SDK10_19041, SDK10_18362, SDK10_17763, SDK10_22000, SDK11_22000,
      MSVC_X86_X64, MSVC_ARM64,
      ComponentId(Windows10SDK, <<"+","0","1","9","0","4","1">>),
      ComponentId(Windows10SDK, <<"4","2","9","4","9","6","7","2","9","5">>),
      ComponentId(Windows10SDK, <<"4","2","9","4","9","6","7","2","9","6">>),
      ComponentId(Windows10SDK, <<"a","b","c">>),
      ComponentId(<<"W","i","n","d","o","w","s","1","2","S","D","K">>, <<"1","9","0","4","1">>),
      join(<<Microsoft, VisualStudio, <<"W","o","r","k","l","o","a","d">>, Windows10SDK, <<"1","9","0","4","1">>>>, "."),
      join(<<Microsoft, VisualStudio, Component, Windows10SDK>>, "."),
      join(<<Microsoft, VisualStudio, Component, Windows10SDK, <<"1","9","0","4","1">>, <<"D","e","s","k","t","o","p">>>>, "."),
      <<>> }

\* What package.GetId().ok() can be: an identifier, or None when it fails.
PackagePool == {Some(id) : id \in IdPool} \cup {None}

\* Bound on the number of packages of the classified component list.
MaxPackages == 3

\* Bound on the number of instances the enumerator yields.
MaxInstances == 2

\* A healthy enumerated instance: every extraction succeeds.
\*   product       "Ok", "None" or "Err": what instance.GetProduct() returns
\*   product_id    product.GetId().ok()
\*   install_path  instance.GetInstallationPath().ok()
\*   display_name  instance.GetDisplayName(0x400).ok()
\*   version       instance.GetInstallationVersion().ok()
\*   properties    "Ok", "None" or "Err": what instance.GetProperties() returns
\*   setup_engine  "Bstr", "Other" or "Err": GetValue("setupEngineFilePath")
\*   packages      instance.GetPackages().ok(), each package as GetId().ok()
Healthy(pid, ver, pkgs) ==
    [product |-> "Ok", product_id |-> Some(pid),
     install_path |-> Some("InstallPath"), display_name |-> Some("DisplayName"),
     version |-> Some(ver), properties |-> "Ok", setup_engine |-> "Bstr",
     packages |-> Some(pkgs)]

V16 == <<"1","6",".","1","1",".","5">>
V17 == <<"1","7",".","0",".","1">>

FullPackages == <<Some(MSVC_X86_X64), Some(SDK10_19041)>>

\* Installation version strings whose major part is unusual.
OddVersions ==
    { <<"1","5",".","9",".","2","8","3","0","7">>, <<"9",".","0">>, <<"1","7">>, <<"+","1","7",".","2">>, <<"+","1","5",".","2">>, <<"0","1","7",".","1">>, <<"0","1","5",".","1">>,
      <<"6","5","5","5","2",".","0">>, <<"x",".","1">>, <<".","5">>, <<>> }

\* Instances with one failing extraction each.
Broken ==
    LET h == Healthy(PRODUCT_BUILD_TOOLS, V17, FullPackages)
    IN  { [h EXCEPT !.product = "Err"], [h EXCEPT !.product = "None"],
          [h EXCEPT !.product_id = None],
          [h EXCEPT !.product_id = Some(<<"M","i","c","r","o","s","o","f","t",".","V","i","s","u","a","l","S","t","u","d","i","o",".","P","r","o","d","u","c","t",".","T","e","a","m","E","x","p","l","o","r","e","r">>)],
          [h EXCEPT !.install_path = None], [h EXCEPT !.display_name = None],
          [h EXCEPT !.version = None],
          [h EXCEPT !.properties = "Err"], [h EXCEPT !.properties = "None"],
          [h EXCEPT !.setup_engine = "Err"], [h EXCEPT !.setup_engine = "Other"],
          [h EXCEPT !.packages = None] }

\* The instances the foreign enumerator can yield.
RawPool ==
    { Healthy(pid, ver, pkgs) :
        pid \in {PRODUCT_BUILD_TOOLS, PRODUCT_ENTERPRISE,
                 PRODUCT_PROFESSIONAL, PRODUCT_COMMUNITY},
        ver \in {V16, V17},
        pkgs \in {<<>>, FullPackages, <<Some(MSVC_ARM64), None>>} }
    \cup { Healthy(PRODUCT_BUILD_TOOLS, ver, FullPackages) : ver \in OddVersions }
    \cup Broken

\* The test with the bound one too low.
is_legacy_below_15(major) == major < 15

\* `major < 16` (main.rs 45): Visual Studio 2017 and older are left out.
is_legacy(major) == major < 16

\* What a use of a released string can do: find the old text, find other
\* bytes, or end the process.
AfterUseOfReleased == {"old", "other", "crashed"}

\* The closure going on without a property store.
map_instance_without_properties(r, a) ==
    IF r.product # "Ok" THEN None
    ELSE IF r.product_id = None THEN None
    ELSE IF Product_from_str(unwrap(r.product_id)) = None THEN None
    ELSE IF r.install_path = None THEN None
    ELSE IF r.display_name = None THEN None
    ELSE IF r.version = None THEN None
    ELSE LET v == split_once(unwrap(r.version), ".")
             parsed == IF v = None THEN None ELSE parse_u16(unwrap(v)[1])
             major == IF parsed = None THEN 0 ELSE unwrap(parsed)
             found == IF r.packages = None
                      THEN [msvc |-> None, sdk |-> None]
                      ELSE classify_packages([msvc |-> None, sdk |-> None],
                                             unwrap(r.packages), a)
         IN  IF is_legacy(major) THEN None
             ELSE IF r.setup_engine = "Err" THEN None
             ELSE Some([display_name |-> unwrap(r.display_name),
                        version |-> major,
                        product_id |-> unwrap(Product_from_str(unwrap(r.product_id))),
                        install_path |-> unwrap(r.install_path),
                        setup_path |-> IF r.setup_engine = "Bstr"
                                       THEN "setupEngineFilePath"
                                       ELSE "ProgramFiles(x86)/setup.exe",
                        msvc |-> found.msvc,
                        sdk |-> found.sdk])

\* The closure mapped over the enumerator (main.rs 32-102): Some(VisualStudio)
\* or None for one enumerated instance r, on architecture a. The string of a
\* Variant::Bstr was released when into_variant returned (defs.rs 98-122), so
\* "setupEngineFilePath" stands for the bytes the read at main.rs 54-55
\* finds there, the old text or others.
map_instance(r, a) ==
    IF r.product # "Ok" THEN None
    ELSE IF r.product_id = None THEN None
    ELSE IF Product_from_str(unwrap(r.product_id)) = None THEN None
    ELSE IF r.install_path = None THEN None
    ELSE IF r.display_name = None THEN None
    ELSE IF r.version = None THEN None
    ELSE LET v == split_once(unwrap(r.version), ".")
             parsed == IF v = None THEN None ELSE parse_u16(unwrap(v)[1])
             major == IF parsed = None THEN 0 ELSE unwrap(parsed)
             found == IF r.packages = None
                      THEN [msvc |-> None, sdk |-> None]
                      ELSE classify_packages([msvc |-> None, sdk |-> None],
                                             unwrap(r.packages), a)
         IN  IF is_legacy(major) THEN None
             ELSE IF r.properties # "Ok" THEN None
             ELSE IF r.setup_engine = "Err" THEN None
             ELSE Some([display_name |-> unwrap(r.display_name),
                        version |-> major,
                        product_id |-> unwrap(Product_from_str(unwrap(r.product_id))),
                        install_path |-> unwrap(r.install_path),
                        setup_path |-> IF r.setup_engine = "Bstr"
                                       THEN "setupEngineFilePath"
                                       ELSE "ProgramFiles(x86)/setup.exe",
                        msvc |-> found.msvc,
                        sdk |-> found.sdk])

\* bool's Ord: false < true.
cmp_bool(x, y) == cmp_int(IF x THEN 1 ELSE 0, IF y THEN 1 ELSE 0)

\* The comparator with the versions compared in ascending order.
sort_cmp_ascending(a, b) ==
    IF (a.msvc = None) # (b.msvc = None)
    THEN cmp_bool(a.msvc = None, b.msvc = None)
    ELSE IF a.version # b.version
    THEN cmp_int(a.version, b.version)
    ELSE cmp_int(Product_discriminant(a.product_id),
                 Product_discriminant(b.product_id))

\* The comparator given to sort_unstable_by (main.rs 130-141).
sort_cmp(a, b) ==
    IF (a.msvc = None) # (b.msvc = None)
    THEN cmp_bool(a.msvc = None, b.msvc = None)
    ELSE IF a.version # b.version
    THEN cmp_int(b.version, a.version)
    ELSE cmp_int(Product_discriminant(a.product_id),
                 Product_discriminant(b.product_id))

\* The orders sort_unstable_by can leave the vector in: every permutation of
\* it that the comparator finds sorted (equal elements in any order).
sort_unstable_by(v) ==
    LET n == Len(v)
        perms == {f \in [1..n -> 1..n] : \A i, j \in 1..n : i # j => f[i] # f[j]}
    IN  { [i \in 1..n |-> v[f[i]]] : f \in
            {g \in perms : \A i \in 1..(n - 1) :
                              sort_cmp(v[g[i]], v[g[i + 1]]) # "Greater"} }

\* clear_components forgetting the sdk field.
clear_components_keeps_sdk(vs) == [vs EXCEPT !.msvc = None]

\* VisualStudio::clear_components
clear_components(vs) == [vs EXCEPT !.msvc = None, !.sdk = None]

\* VisualStudio::components: the toolset identifier, then the SDK identifier.
components(vs) ==
    (IF vs.msvc = None THEN <<>> ELSE <<Msvc_id(unwrap(vs.msvc))>>)
    \o (IF vs.sdk = None THEN <<>> ELSE <<unwrap(vs.sdk).id>>)

\* Iterator::max over Sdk values: the last of the greatest elements.
RECURSIVE max_from(_, _)
max_from(best, rest) ==
    IF rest = <<>> THEN best
    ELSE max_from(IF Sdk_cmp(best, Head(rest)) = "Greater" THEN best ELSE Head(rest),
                  Tail(rest))

\* components.into_iter().filter_map(|id| Sdk::from_id(&id))
RECURSIVE filter_map_sdk(_)
filter_map_sdk(ids) ==
    IF ids = <<>> THEN <<>>
    ELSE (IF Sdk_from_id(Head(ids)) = None THEN <<>>
          ELSE <<unwrap(Sdk_from_id(Head(ids)))>>) \o filter_map_sdk(Tail(ids))

max_sdk(ids) ==
    LET sdks == filter_map_sdk(ids)
    IN  IF sdks = <<>> THEN None ELSE Some(max_from(Head(sdks), Tail(sdks)))

\* The export documents read back from the config file: None is a document
\* that does not deserialize as VsConfig (empty, or not the expected JSON),
\* Some(ids) is one whose `components` array holds ids.
ExportPool ==
    { None, Some(<<>>), Some(<<MSVC_X86_X64>>), Some(<<SDK10_19041>>),
      Some(<<SDK10_18362, SDK11_22000, SDK10_19041>>),
      Some(<<SDK11_22000, SDK10_22000>>),
      Some(<<MSVC_ARM64, ComponentId(Windows10SDK, <<"a","b","c">>)>>) }

\* How far components_json gets: the step that fails with an I/O error, or "ok".
ExportSteps == {"tempfile", "spawn", "wait", "read", "ok"}

\* avaliable_components, given the outcome of components_json: the instance
\* with its sdk set when the result is Ok, None when the result is Err.
avaliable_components(vs, step, doc) ==
    IF step # "ok" THEN None
    ELSE IF doc = None THEN None
    ELSE IF max_sdk(unwrap(doc)) = None THEN None
    ELSE Some([vs EXCEPT !.sdk = max_sdk(unwrap(doc))])

\* str::trim: without leading and trailing whitespace.
WhiteSpace == {" ", "\t", "\n", "\r"}

RECURSIVE trim_start(_)
trim_start(s) ==
    IF s # <<>> /\ Head(s) \in WhiteSpace THEN trim_start(Tail(s)) ELSE s

RECURSIVE trim_end(_)
trim_end(s) ==
    IF s # <<>> /\ s[Len(s)] \in WhiteSpace
    THEN trim_end(SubSeq(s, 1, Len(s) - 1)) ELSE s

trim(s) == trim_end(trim_start(s))

\* u8::to_ascii_lowercase, on byte values.
to_ascii_lowercase(b) == IF b >= 65 /\ b <= 90 THEN b + 32 ELSE b

\* str::eq_ignore_ascii_case
eq_ignore_ascii_case(a, b) ==
    /\ Len(a) = Len(b)
    /\ \A i \in 1..Len(a) :
          to_ascii_lowercase(Byte[a[i]]) = to_ascii_lowercase(Byte[b[i]])

\* The test of the confirmation line (main.rs 184-185).
accepted(text) ==
    LET t == trim(text)
    IN  eq_ignore_ascii_case(t, <<"y","e","s">>) \/ eq_ignore_ascii_case(t, <<"y">>)

\* What read_line can leave in `line`: a whole line (or nothing at end of
\* input) when it returns Ok; when it returns Err, the bytes read before the
\* I/O error, or nothing.
LinePool ==
    { <<"y","\n">>, <<"Y", "\r", "\n">>, <<"y","e","s","\n">>, <<" ", "\t", "Y", "e", "S", " ", "\n">>, <<"n","\n">>, <<"n","o","\n">>, <<"\n">>, <<>>, <<"y","e","\n">>, <<"y","y","\n">>, <<"y","e","s"," ","p","l","e","a","s","e","\n">>, <<"y">> }

PartialPool == { <<>>, <<"n">>, <<"y">>, <<"Y","E","S">> }

ReadOutcomes ==
    {[ok |-> TRUE, buf |-> t] : t \in LinePool}
    \cup {[ok |-> FALSE, buf |-> t] : t \in PartialPool}

\* std::env::consts::ARCH: an x86 family target and the Arm64 target.
ArchPool == {"x86_64", "aarch64"}

\* The closure's value for every instance the enumerator can yield, on every
\* architecture.
mapped_instances ==
    [a \in ArchPool |-> [r \in RawPool |-> map_instance(r, a)]]

\* The closure got as far as decoding a text value for r: it reads the
\* released string, and releases it again when the Variant is dropped at
\* the end of the closure.
uses_released(r, a) ==
    mapped_instances[a][r] # None /\ r.setup_engine = "Bstr"

\* What the closure's uses of the released string can do for r; a closure
\* that decodes no text uses none.
released_outcomes(r, a) ==
    IF uses_released(r, a) THEN AfterUseOfReleased ELSE {"unused"}

\* The exit status of a process ended by an access violation (0xC0000005).
CrashExit == -1073741819

\* The statuses CoInitializeEx can return: S_OK, S_FALSE, RPC_E_CHANGED_MODE
\* (0x80010106) and E_OUTOFMEMORY (0x8007000E), as i32.
CoInitResults == {0, 1, -2147417850, -2147024882}

\* The status constants of defs.rs 134-138, as i32.
S_OK == 0

S_FALSE == 1

E_POINTER == -2147467261

E_INVALIDARG == -2147024809

E_UNEXPECTED == -2147418113

\* Every status taken for a success.
is_ok_always(hr) == TRUE

\* HRESULT::is_ok
is_ok(hr) == hr >= 0

\* What CoInitializeEx answers the call at main.rs 120, the first one the
\* process makes on its main thread: S_FALSE answers a thread that has
\* initialized COM before.
MainInitResults == CoInitResults \ {S_FALSE}

\* com::initialize (com.rs 27-30), given the status CoInitializeEx returned.
initialize(hr) == IF is_ok(hr) THEN "Ok" ELSE "Err"

\* ------------------------------------------------------------------------
\* State
\* ------------------------------------------------------------------------

VARIABLES
    arch,            \* std::env::consts::ARCH of the running process
    pc,              \* where main / run_main stands
    instances,       \* the Vec<VisualStudio> collected by instances()
    cur,             \* the instance the enumerator yielded last, if any
    yielded,         \* how many instances the enumerator has yielded
    instance,        \* the selected instance, once there is one
    msvc_installed,  \* local of run_main
    sdk_installed,   \* local of run_main
    json,            \* the export document components_json returned, if any
    line,            \* the String read_line wrote to
    log,             \* what the process printed, read and spawned, in order
    result,          \* how run_main ended: "Running", "Ok", "Err", "Panic", "Crash"
    exit_code,       \* the exit status of the process, once it has exited
    child,           \* the exit status wait() returned for the modify child
    packages,        \* the package identifiers the classification loop has seen
    msvc,            \* local `msvc` of the classification loop
    sdk,             \* local `sdk` of the classification loop
    build,           \* cfg!(debug_assertions): "debug" or "release"
    bpc,             \* where the caller of the binding layer stands
    input,           \* the arguments and foreign answers of the call under way
    calls,           \* the foreign calls made so far, in order
    out,             \* what the call under way returned, once it has
    objects,         \* the foreign objects: kind and foreign reference count
    handles,         \* how many live handles the caller owns to each object
    buffer           \* the caller's buffer given to Next: a handle or None each

wf_vars == <<pc, instances, cur, yielded, instance, msvc_installed, sdk_installed,
             json, line, log, result, exit_code, child>>

cl_vars == <<packages, msvc, sdk>>

lib_vars == <<build, bpc, input, calls, out>>

h_vars == <<objects, handles, buffer>>

vars == <<arch, wf_vars, cl_vars, lib_vars, h_vars>>

\* One entry of the log: a println!, a read of stdin or a spawned command,
\* with the component identifiers it carries.
Entry(kind, ids) == [kind |-> kind, components |-> ids]

Say(kind) == Entry(kind, <<>>)

\* The exit status of a process that panicked.
PanicExit == 101

\* One foreign call: the function called, the status it returned and, where
\* the call has one, a count or a value it passed or returned.
Call(fn, hr, n) == [fn |-> fn, hr |-> hr, n |-> n]

\* The functions called so far.
Called == {calls[i].fn : i \in 1..Len(calls)}

\* What a call of the binding layer returned: the variant of the value, the
\* status of an Err, a count, and the bits of a payload.
Out(tag, hr, n, val) == [tag |-> tag, hr |-> hr, n |-> n, val |-> val]

NoOut == Out("none", 0, 0, <<>>)

NoInput == [op |-> "none"]

\* No call of the binding layer is under way and none was made.
LibIdle ==
    /\ build = "release"
    /\ bpc = "idle"
    /\ input = NoInput
    /\ calls = <<>>
    /\ out = NoOut

\* Bound on the number of foreign objects alive at once.
MaxObjects == 4

ObjectIds == 1..MaxObjects

\* No object: its identity is free.
NoObject == [kind |-> "none", refs |-> 0]

\* No foreign object was created and the caller owns no handle.
HandlesIdle ==
    /\ objects = [o \in ObjectIds |-> NoObject]
    /\ handles = [o \in ObjectIds |-> 0]
    /\ buffer = <<>>

\* ------------------------------------------------------------------------
\* The workflow: main and run_main
\* ------------------------------------------------------------------------

Init ==
    /\ arch \in ArchPool
    /\ pc = "run_main"
    /\ instances = <<>>
    /\ cur = None
    /\ instance = None
    /\ msvc_installed = FALSE
    /\ sdk_installed = FALSE
    /\ json = None
    /\ line = <<>>
    /\ log = <<>>
    /\ result = "Running"
    /\ exit_code = None
    /\ child = None
    /\ yielded = 0
    /\ packages = <<>>
    /\ msvc = None
    /\ sdk = None
    /\ LibIdle
    /\ HandlesIdle

\* run_main returns: r is "Ok", "Err" or "Panic", code the HRESULT of an Err.
Return(r, code) ==
    /\ pc' = "returned"
    /\ result' = r
    /\ exit_code' = IF r = "Err" THEN Some(code) ELSE None

\* com::initialize()? (main.rs 118-120, com.rs 27-30)
ComInitialize ==
    /\ pc = "run_main"
    /\ \E hr \in MainInitResults :
          /\ calls' = Append(calls, Call("CoInitializeEx", hr, 0))
          /\ log' = Append(log, Say("scanning"))
          /\ IF initialize(hr) = "Ok"
             THEN /\ pc' = "instances"
                  /\ UNCHANGED <<result, exit_code>>
             ELSE Return("Err", hr)
    /\ UNCHANGED <<arch, instances, cur, instance, msvc_installed,
                   sdk_installed, json, line, child, yielded, cl_vars, h_vars, build, bpc,
                   input, out>>

\* instances(): SetupConfiguration::new(), which calls CoCreateInstance
\* (lib.rs 176-190), and EnumInstances() (main.rs 22-30); when either fails
\* the empty vector is returned.
CreateEnumerator ==
    /\ pc = "instances"
    /\ \E created \in BOOLEAN, enumerated \in BOOLEAN :
          /\ pc' = IF created /\ enumerated THEN "enumerating" ELSE "collected"
          /\ calls' = Append(calls, Call("CoCreateInstance",
                                         IF created THEN S_OK ELSE E_POINTER, 0))
    /\ UNCHANGED <<arch, instances, cur, instance, msvc_installed,
                   sdk_installed, json, line, log, result, exit_code, child,
                   yielded, cl_vars, h_vars, build, bpc, input, out>>

\* One item of the iterator chain (main.rs 31-104): the enumerator yields an
\* instance, the closure maps it, filter_map keeps it unless it is None. A
\* closure that decodes a text value uses a released string: the process may
\* end there.
MapInstance ==
    /\ pc = "enumerating"
    /\ yielded < MaxInstances
    /\ yielded' = yielded + 1
    /\ \E r \in RawPool : \E ub \in released_outcomes(r, arch) :
          /\ cur' = Some(r)
          /\ IF ub = "crashed"
             THEN /\ pc' = "exited"
                  /\ result' = "Crash"
                  /\ exit_code' = Some(CrashExit)
                  /\ UNCHANGED instances
             ELSE LET mapped == mapped_instances[arch][r]
                  IN  /\ instances' = IF mapped = None THEN instances
                                      ELSE Append(instances, unwrap(mapped))
                      /\ UNCHANGED <<pc, result, exit_code>>
    /\ UNCHANGED <<arch, instance, msvc_installed, sdk_installed, json,
                   line, log, child, cl_vars, h_vars, lib_vars>>

\* The enumerator's next() returns None (lib.rs 334-340): collect() ends.
EnumEnd ==
    /\ pc = "enumerating"
    /\ pc' = "collected"
    /\ cur' = None
    /\ UNCHANGED <<arch, instances, instance, msvc_installed, sdk_installed,
                   json, line, log, result, exit_code, child, yielded, cl_vars, h_vars,
                   lib_vars>>

\* The empty case returning S_OK as the error value.
NoInstances_S_OK ==
    /\ pc = "collected"
    /\ instances = <<>>
    /\ log' = Append(log, Say("not_installed"))
    /\ Return("Err", 0)
    /\ UNCHANGED <<arch, instances, cur, instance, msvc_installed,
                   sdk_installed, json, line, child, yielded, cl_vars, h_vars, lib_vars>>

\* instances.is_empty() (main.rs 122-127)
NoInstances ==
    /\ pc = "collected"
    /\ instances = <<>>
    /\ log' = Append(log, Say("not_installed"))
    /\ Return("Err", 1)
    /\ UNCHANGED <<arch, instances, cur, instance, msvc_installed,
                   sdk_installed, json, line, child, yielded, cl_vars, h_vars, lib_vars>>

\* instances.sort_unstable_by(..) (main.rs 129-141)
SortInstances ==
    /\ pc = "collected"
    /\ instances # <<>>
    /\ instances' \in sort_unstable_by(instances)
    /\ pc' = "sorted"
    /\ UNCHANGED <<arch, cur, instance, msvc_installed, sdk_installed, json,
                   line, log, result, exit_code, child, yielded, cl_vars, h_vars, lib_vars>>

\* truncate(1), remove(0), msvc_installed (main.rs 142-148).
SelectInstance ==
    /\ pc = "sorted"
    /\ instance' = Some(instances[1])
    /\ instances' = <<>>
    /\ msvc_installed' = (instances[1].msvc # None)
    /\ log' = IF instances[1].msvc # None
              THEN Append(log, Entry("found_msvc",
                                     <<Msvc_id(unwrap(instances[1].msvc))>>))
              ELSE log
    /\ pc' = "selected"
    /\ UNCHANGED <<arch, cur, sdk_installed, json, line, result, exit_code,
                   child, yielded, cl_vars, h_vars, lib_vars>>

\* find_windows_sdk(ARCH), the probe of the host's disk (main.rs 150-155).
FindWindowsSdk ==
    /\ pc = "selected"
    /\ \E found \in BOOLEAN :
          /\ sdk_installed' = found
          /\ log' = IF found THEN Append(log, Say("found_sdk")) ELSE log
    /\ pc' = "probed"
    /\ UNCHANGED <<arch, instances, cur, instance, msvc_installed, json,
                   line, result, exit_code, child, yielded, cl_vars, h_vars, lib_vars>>

\* The test with the toolset flag negated.
nothing_missing_negated(sdk_found, msvc_found) == sdk_found /\ ~msvc_found

\* The test `sdk_installed && msvc_installed` (main.rs 157).
nothing_missing(sdk_found, msvc_found) == sdk_found /\ msvc_found

\* Nothing to do (main.rs 157-158, 205).
Satisfied ==
    /\ pc = "probed"
    /\ nothing_missing(sdk_installed, msvc_installed)
    /\ log' = Append(log, Say("satisfied"))
    /\ Return("Ok", 0)
    /\ UNCHANGED <<arch, instances, cur, instance, msvc_installed,
                   sdk_installed, json, line, child, yielded, cl_vars, h_vars, lib_vars>>

\* The repair asking for the export whether or not the SDK was found.
NeedsRepair_always_exports ==
    /\ pc = "probed"
    /\ ~nothing_missing(sdk_installed, msvc_installed)
    /\ instance' = Some(clear_components(unwrap(instance)))
    /\ log' = log
              \o (IF ~sdk_installed THEN <<Say("missing_sdk")>> ELSE <<>>)
              \o (IF ~msvc_installed THEN <<Say("missing_msvc")>> ELSE <<>>)
              \o <<Say("finding")>>
    /\ pc' = "resolve_sdk"
    /\ UNCHANGED <<arch, instances, cur, msvc_installed, sdk_installed, json,
                   line, result, exit_code, child, yielded, cl_vars, h_vars, lib_vars>>

\* Something is missing (main.rs 159-168).
NeedsRepair ==
    /\ pc = "probed"
    /\ ~nothing_missing(sdk_installed, msvc_installed)
    /\ instance' = Some(clear_components(unwrap(instance)))
    /\ log' = log
              \o (IF ~sdk_installed THEN <<Say("missing_sdk")>> ELSE <<>>)
              \o (IF ~msvc_installed THEN <<Say("missing_msvc")>> ELSE <<>>)
              \o <<Say("finding")>>
    /\ pc' = IF sdk_installed THEN "resolve_msvc" ELSE "resolve_sdk"
    /\ UNCHANGED <<arch, instances, cur, msvc_installed, sdk_installed, json,
                   line, result, exit_code, child, yielded, cl_vars, h_vars, lib_vars>>

\* avaliable_components(&mut instance).unwrap() (main.rs 169-171, 208-273):
\* the export child is spawned unless making the config file fails first;
\* an Err result panics in unwrap.
ResolveSdk ==
    /\ pc = "resolve_sdk"
    /\ \E step \in ExportSteps, doc \in ExportPool :
          LET spawn == IF step = "tempfile" THEN <<>> ELSE <<Say("spawn_export")>>
              r == avaliable_components(unwrap(instance), step, doc)
          IN  /\ json' = IF step = "ok" THEN Some(doc) ELSE None
              /\ log' = log \o spawn
              /\ IF r = None
                 THEN /\ Return("Panic", 0)
                      /\ UNCHANGED instance
                 ELSE /\ instance' = r
                      /\ pc' = "resolve_msvc"
                      /\ UNCHANGED <<result, exit_code>>
    /\ UNCHANGED <<arch, instances, cur, msvc_installed, sdk_installed, line,
                   child, yielded, cl_vars, h_vars, lib_vars>>

\* The toolset of the running architecture when it is missing, the list of
\* components found and the question (main.rs 172-180).
ReportComponents ==
    /\ pc = "resolve_msvc"
    /\ LET vs == IF msvc_installed THEN unwrap(instance)
                 ELSE [unwrap(instance) EXCEPT
                          !.msvc = Some(Msvc_from_rust_arch(arch))]
       IN  /\ instance' = Some(vs)
           /\ log' = log \o <<Entry("found_components", components(vs)),
                              Say("prompt")>>
    /\ pc' = "confirm"
    /\ UNCHANGED <<arch, instances, cur, msvc_installed, sdk_installed, json,
                   line, result, exit_code, child, yielded, cl_vars, h_vars, lib_vars>>

\* The exit statuses of the modify child: success, a failure, and "reboot
\* required" (3010).
ChildStatuses == {0, 1, 3010}

\* How the modify command ends: spawn() fails, wait() fails, or the child
\* exits with a status.
ModifyOutcomes ==
    {[spawned |-> FALSE, waited |-> FALSE, status |-> 0],
     [spawned |-> TRUE, waited |-> FALSE, status |-> 0]}
    \cup {[spawned |-> TRUE, waited |-> TRUE, status |-> st] :
             st \in ChildStatuses}

\* run_main returning Ok only when the child exited with status 0.
after_modify_checks_status(spawned, waited, status) ==
    IF spawned /\ waited /\ status = 0 THEN "Ok" ELSE "Panic"

\* What follows the modify command (main.rs 199-205): spawn().unwrap() and
\* wait().unwrap() panic when the call fails; the ExitStatus wait() returned
\* is dropped and run_main returns Ok(()).
after_modify(spawned, waited, status) ==
    IF spawned /\ waited THEN "Ok" ELSE "Panic"

\* read_line, the test of the answer and the modify child (main.rs 181-205);
\* spawn().unwrap() and wait().unwrap() panic when the call fails.
Confirm ==
    /\ pc = "confirm"
    /\ \E rd \in ReadOutcomes, m \in ModifyOutcomes :
          /\ line' = rd.buf
          /\ IF accepted(rd.buf)
             THEN /\ log' = log \o <<Say(IF rd.ok THEN "read_ok" ELSE "read_err"),
                                     Entry("spawn_modify",
                                           components(unwrap(instance)))>>
                  /\ child' = IF m.spawned /\ m.waited THEN Some(m.status)
                              ELSE None
                  /\ Return(after_modify(m.spawned, m.waited, m.status), 0)
             ELSE /\ log' = Append(log, Say(IF rd.ok THEN "read_ok" ELSE "read_err"))
                  /\ child' = None
                  /\ Return("Ok", 0)
    /\ UNCHANGED <<arch, instances, cur, instance, msvc_installed,
                   sdk_installed, json, yielded, cl_vars, h_vars, lib_vars>>

\* main (main.rs 107-115): the exit status of the process; a panic ends the
\* process with status 101.
Exit ==
    /\ pc = "returned"
    /\ pc' = "exited"
    /\ exit_code' = IF result = "Ok" THEN Some(0)
                    ELSE IF result = "Err" THEN exit_code
                    ELSE Some(PanicExit)
    /\ log' = IF result = "Err" THEN Append(log, Say("error")) ELSE log
    /\ UNCHANGED <<arch, instances, cur, instance, msvc_installed,
                   sdk_installed, json, line, result, child, yielded, cl_vars, h_vars, lib_vars>>

Next ==
    \/ ComInitialize
    \/ CreateEnumerator
    \/ MapInstance
    \/ EnumEnd
    \/ NoInstances
    \/ SortInstances
    \/ SelectInstance
    \/ FindWindowsSdk
    \/ Satisfied
    \/ NeedsRepair
    \/ ResolveSdk
    \/ ReportComponents
    \/ Confirm
    \/ Exit

Spec == Init /\ [][Next]_vars

\* ------------------------------------------------------------------------
\* The classification loop on its own (main.rs 74-89)
\* ------------------------------------------------------------------------

\* The loop has not started: msvc and sdk are None; the workflow stands still.
InitClassify ==
    /\ arch \in ArchPool
    /\ pc = "packages"
    /\ instances = <<>>
    /\ cur = None
    /\ instance = None
    /\ msvc_installed = FALSE
    /\ sdk_installed = FALSE
    /\ json = None
    /\ line = <<>>
    /\ log = <<>>
    /\ result = "Running"
    /\ exit_code = None
    /\ child = None
    /\ yielded = 0
    /\ packages = <<>>
    /\ msvc = None
    /\ sdk = None
    /\ LibIdle
    /\ HandlesIdle

\* One iteration of `for package in packages.iter()`: the array holds one
\* more package, whose GetId() fails or returns an identifier.
ClassifyPackage ==
    /\ pc = "packages"
    /\ Len(packages) < MaxPackages
    /\ \E pkg \in PackagePool :
          LET acc == classify_package([msvc |-> msvc, sdk |-> sdk], pkg, arch)
          IN  /\ packages' = Append(packages, pkg)
              /\ msvc' = acc.msvc
              /\ sdk' = acc.sdk
    /\ UNCHANGED <<arch, wf_vars, lib_vars, h_vars>>

NextClassify == ClassifyPackage

SpecClassify == InitClassify /\ [][NextClassify]_vars

\* ------------------------------------------------------------------------
\* The binding layer on its own (com.rs, defs.rs, lib.rs)
\* ------------------------------------------------------------------------

\* cfg!(debug_assertions), which also turns the overflow checks on.
Builds == {"debug", "release"}

\* The values the closure given to with_com can return.
ClosureValues == {0, 1, 2}

\* uninitialize called twice after the closure.
with_com_teardown_twice ==
    <<Call("CoUninitialize", S_OK, 0), Call("CoUninitialize", S_OK, 0)>>

\* What with_com calls after the closure has returned (com.rs 19-20).
with_com_teardown == <<Call("CoUninitialize", S_OK, 0)>>

\* with_com: initialize()? (com.rs 17).
WithComInitialize ==
    /\ bpc = "start"
    /\ \E hr \in CoInitResults :
          /\ calls' = Append(calls, Call("CoInitializeEx", hr, 0))
          /\ IF initialize(hr) = "Ok"
             THEN /\ bpc' = "with_com_f"
                  /\ out' = out
             ELSE /\ bpc' = "done"
                  /\ out' = Out("Err", hr, 0, <<>>)
    /\ input' = [op |-> "with_com"]
    /\ UNCHANGED <<arch, wf_vars, cl_vars, h_vars, build>>

\* with_com: let result = f() (com.rs 18); the closure returns a value or
\* panics, and a panic unwinds through with_com.
WithComClosure ==
    /\ bpc = "with_com_f"
    /\ \/ \E v \in ClosureValues :
             /\ calls' = Append(calls, Call("f", S_OK, v))
             /\ bpc' = "with_com_teardown"
             /\ out' = out
       \/ /\ calls' = Append(calls, Call("f_panic", S_OK, 0))
          /\ bpc' = "panicked"
          /\ out' = Out("Panic", 0, 0, <<>>)
    /\ UNCHANGED <<arch, wf_vars, cl_vars, h_vars, build, input>>

\* with_com: uninitialize() and Ok(result) (com.rs 19-21).
WithComReturn ==
    /\ bpc = "with_com_teardown"
    /\ out' = Out("Ok", 0, calls[Len(calls)].n, <<>>)
    /\ calls' = calls \o with_com_teardown
    /\ bpc' = "done"
    /\ UNCHANGED <<arch, wf_vars, cl_vars, h_vars, build, input>>

\* Bound on the length of the buffer given to Next and on what the foreign
\* side reports beyond it.
MaxBatch == 2

\* The statuses the foreign Next returns: S_OK, S_FALSE, another success
\* status, E_OUTOFMEMORY and E_UNEXPECTED.
NextStatuses == {S_OK, S_FALSE, 2, -2147024882, E_UNEXPECTED}

\* Next with the test `fetched < len`.
EnumSetupInstances_Next_strict(len, hresult, fetched) ==
    IF hresult = S_FALSE THEN Out("OkNone", 0, 0, <<>>)
    ELSE IF ~is_ok(hresult) THEN Out("Err", hresult, 0, <<>>)
    ELSE IF fetched < len THEN Out("OkSome", 0, fetched, <<>>)
    ELSE Out("Err", E_UNEXPECTED, 0, <<>>)

\* EnumSetupInstances::Next (lib.rs 264-288), given the length of the buffer
\* and what the foreign Next returned and stored in `fetched`: Ok(None),
\* Err(status) or Ok(Some(slice)) with the length of the slice.
EnumSetupInstances_Next(len, hresult, fetched) ==
    IF hresult = S_FALSE THEN Out("OkNone", 0, 0, <<>>)
    ELSE IF ~is_ok(hresult) THEN Out("Err", hresult, 0, <<>>)
    ELSE IF fetched <= len THEN Out("OkSome", 0, fetched, <<>>)
    ELSE Out("Err", E_UNEXPECTED, 0, <<>>)

\* One call of EnumSetupInstances::Next.
BatchNext ==
    /\ bpc = "start"
    /\ \E len \in 0..MaxBatch, hr \in NextStatuses, fetched \in 0..(MaxBatch + 1) :
          /\ input' = [op |-> "Next", len |-> len, hr |-> hr,
                       fetched |-> fetched]
          /\ calls' = Append(calls, Call("Next", hr, fetched))
          /\ out' = EnumSetupInstances_Next(len, hr, fetched)
    /\ bpc' = "done"
    /\ UNCHANGED <<arch, wf_vars, cl_vars, h_vars, build>>

\* Bound on the length of the sequence a cursor walks in a loop of batch
\* pulls.
MaxItems == 3

\* One pull of a loop `while let Some(slice) = enumerator.Next(&mut buf)?`
\* over a cursor of input.total instances with a buffer of length n > 1: the
\* foreign Next fetches what is left, up to n, and returns S_OK for a full
\* batch and S_FALSE for a short one; out.n counts the instances of the
\* slices returned so far, and the loop ends when Next returns Ok(None).
BatchPull ==
    /\ bpc \in {"start", "pulling"}
    /\ \E n \in 2..MaxBatch, total \in 0..MaxItems :
          LET first == bpc = "start"
              len == IF first THEN n ELSE input.len
              left == IF first THEN total ELSE input.left
              fetched == IF left < len THEN left ELSE len
              hr == IF fetched = len THEN S_OK ELSE S_FALSE
              r == EnumSetupInstances_Next(len, hr, fetched)
          IN  /\ ~first => (n = input.len /\ total = input.total)
              /\ input' = [op |-> "pulls", len |-> len,
                           total |-> IF first THEN total ELSE input.total,
                           left |-> left - fetched]
              /\ calls' = Append(calls, Call("Next", hr, fetched))
              /\ IF r.tag = "OkSome"
                 THEN /\ out' = Out("Pulled", 0, out.n + r.n, <<>>)
                      /\ bpc' = "pulling"
                 ELSE /\ out' = Out("End", 0, out.n, <<>>)
                      /\ bpc' = "done"
    /\ UNCHANGED <<arch, wf_vars, cl_vars, h_vars, build>>

\* Bound on the number of pulls of one loop over the iterator.
MaxPulls == 3

\* The item pointer the foreign Next stores: null or an instance.
ItemPool == {0, 1}

\* next() yielding whenever the status is a success.
Iterator_next_any_success(hresult, item) ==
    IF is_ok(hresult) /\ item # 0 THEN Some(item) ELSE None

\* Iterator::next for EnumSetupInstances (lib.rs 331-340), given what the
\* foreign Next(1, ..) returned and the pointer it stored.
Iterator_next(hresult, item) ==
    IF hresult = S_OK /\ item # 0 THEN Some(item) ELSE None

\* One pull of `for instance in enumerator`: the loop goes on with the item
\* or ends on None.
IteratorNext ==
    /\ bpc \in {"start", "iterating"}
    /\ Len(calls) < MaxPulls
    /\ \E hr \in NextStatuses, item \in ItemPool :
          /\ calls' = Append(calls, Call("Next", hr, item))
          /\ IF Iterator_next(hr, item) # None
             THEN /\ bpc' = "iterating"
                  /\ out' = Out("Yielded", 0, out.n + 1, <<>>)
             ELSE /\ bpc' = "done"
                  /\ out' = Out("End", 0, out.n, <<>>)
    /\ input' = [op |-> "iter"]
    /\ UNCHANGED <<arch, wf_vars, cl_vars, h_vars, build>>

\* The VARTYPE constants of defs.rs 44-54.
VT_BSTR == 8

VT_BOOL == 11

VT_I1 == 16

VT_I2 == 2

VT_I4 == 3

VT_I8 == 20

VT_UI1 == 17

VT_UI2 == 18

VT_UI4 == 19

VT_UI8 == 21

\* The tags a VARIANT can carry: the ten above, and VT_EMPTY, VT_R8, VT_DATE
\* and VT_DISPATCH (0, 5, 7, 9), which have no constant in defs.rs.
VtPool ==
    {VT_BSTR, VT_BOOL, VT_I1, VT_I2, VT_I4, VT_I8, VT_UI1, VT_UI2, VT_UI4,
     VT_UI8} \cup {0, 5, 7, 9}

\* The 64 bits of the union VARIANT_DATA as four 16 bit words, lowest first:
\* boolVal is the first word, llVal all four, bstrVal the pointer they spell.
NullData == <<0, 0, 0, 0>>

DataPool ==
    { NullData, <<1, 0, 0, 0>>, <<0, 0, 1, 0>>, <<65535, 65535, 0, 0>>,
      <<65535, 65535, 65535, 65535>>, <<255, 0, 0, 0>>, <<65535, 0, 0, 0>>,
      <<128, 0, 0, 0>> }

\* What the foreign object leaves in the zeroed union (lib.rs 819) when it
\* stores the integer v, of magnitude at most 2^15, in two's complement at
\* width w: cVal (8), iVal (16), lVal (32) or llVal (64).
Stored(v, w) ==
    LET s == IF v < 0 THEN 65535 ELSE 0
    IN  CASE w = 8 -> <<v % 256, 0, 0, 0>>
          [] w = 16 -> <<v % 65536, 0, 0, 0>>
          [] w = 32 -> <<v % 65536, s, 0, 0>>
          [] OTHER -> <<v % 65536, s, s, s>>

\* Drop for BSTR: SysFreeString unless the pointer is null.
BSTR_drop(data) ==
    IF data # NullData THEN <<Call("SysFreeString", S_OK, 0)>> ELSE <<>>

\* Drop for VARIANT (defs.rs 114-122).
VARIANT_drop(vt, data) == IF vt = VT_BSTR THEN BSTR_drop(data) ELSE <<>>

\* into_variant with the boolean read from the whole union.
into_variant_bool_of_llVal(vt, data, b) ==
    IF vt = VT_BSTR THEN Out("Bstr", 0, 0, data)
    ELSE IF vt = VT_BOOL
    THEN Out("Bool", 0, IF data # NullData THEN 1 ELSE 0, <<>>)
    ELSE IF vt \in {VT_I1, VT_I2, VT_I4, VT_I8} THEN Out("Signed", 0, 0, data)
    ELSE IF vt \in {VT_UI1, VT_UI2, VT_UI4, VT_UI8}
    THEN Out("Unsigned", 0, 0, data)
    ELSE IF b = "debug" THEN Out("Panic", 0, 0, <<>>)
    ELSE Out("Unknown", 0, 0, <<>>)

\* VARIANT::into_variant (defs.rs 97-113) on build b: the Variant, with the
\* bits it holds (the pointer of a Bstr, the llVal of an integer) or the
\* truth of a Bool as 0 or 1.
into_variant(vt, data, b) ==
    IF vt = VT_BSTR THEN Out("Bstr", 0, 0, data)
    ELSE IF vt = VT_BOOL
    THEN Out("Bool", 0, IF data[1] # 0 THEN 1 ELSE 0, <<>>)
    ELSE IF vt \in {VT_I1, VT_I2, VT_I4, VT_I8} THEN Out("Signed", 0, 0, data)
    ELSE IF vt \in {VT_UI1, VT_UI2, VT_UI4, VT_UI8}
    THEN Out("Unsigned", 0, 0, data)
    ELSE IF b = "debug" THEN Out("Panic", 0, 0, <<>>)
    ELSE Out("Unknown", 0, 0, <<>>)

\* value.into_variant() (lib.rs 823): the Variant is made and `self`, the
\* VARIANT, is dropped when into_variant returns or unwinds.
IntoVariant ==
    /\ bpc = "start"
    /\ \E vt \in VtPool, data \in DataPool :
          LET v == into_variant(vt, data, build)
          IN  /\ input' = [op |-> "into_variant", vt |-> vt, data |-> data]
              /\ out' = v
              /\ calls' = calls \o VARIANT_drop(vt, data)
              /\ bpc' = IF v.tag = "Panic" THEN "panicked" ELSE "decoded"
    /\ UNCHANGED <<arch, wf_vars, cl_vars, h_vars, build>>

\* The number of SysFreeString calls so far.
Released == Cardinality({i \in 1..Len(calls) : calls[i].fn = "SysFreeString"})

\* The caller reads the text of a Variant::Bstr (as main.rs 54-55 does): a
\* read of a live string (n = 0), or of one already released, which is
\* undefined (n = 1 for the old text, n = 2 for other bytes, or a crash).
ReadVariant ==
    /\ bpc = "decoded"
    /\ out.tag = "Bstr" /\ out.val # NullData
    /\ "read" \notin Called
    /\ IF Released = 0
       THEN /\ calls' = Append(calls, Call("read", S_OK, 0))
            /\ bpc' = bpc
       ELSE \E o \in AfterUseOfReleased :
               /\ calls' = Append(calls, Call("read", S_OK,
                                              IF o = "other" THEN 2 ELSE 1))
               /\ bpc' = IF o = "crashed" THEN "crashed" ELSE bpc
    /\ UNCHANGED <<arch, wf_vars, cl_vars, h_vars, build, input, out>>

\* The Variant is dropped: a Bstr drops its BSTR; releasing a string that
\* was released before is undefined, the process goes on or crashes.
DropVariant ==
    /\ bpc = "decoded"
    /\ LET again == IF out.tag = "Bstr" THEN BSTR_drop(out.val) ELSE <<>>
       IN  /\ calls' = calls \o again
           /\ IF again # <<>> /\ Released > 0
              THEN bpc' \in {"done", "crashed"}
              ELSE bpc' = "done"
    /\ UNCHANGED <<arch, wf_vars, cl_vars, h_vars, build, input, out>>

\* Bound on the number of elements of a SAFEARRAY and on the reads made
\* through one wrapper.
MaxElements == 2

\* Drop with the two calls in the other order.
SafeArray_drop_destroy_first(unlocked, destroyed) ==
    <<Call("SafeArrayDestroy", destroyed, 0), Call("SafeArrayUnlock", unlocked, 0)>>

\* Drop for SafeArray (lib.rs 1010-1017): both statuses are discarded.
SafeArray_drop(unlocked, destroyed) ==
    <<Call("SafeArrayUnlock", unlocked, 0), Call("SafeArrayDestroy", destroyed, 0)>>

\* from_raw returning the wrapper whatever the number of dimensions.
SafeArray_from_raw_any_dims(hr, cDims, cElements, b) ==
    IF ~is_ok(hr) THEN Out("Err", hr, 0, <<>>)
    ELSE Out("Ok", 0, cElements, <<>>)

\* SafeArray::from_raw (lib.rs 977-992) on build b, given the status hr of
\* SafeArrayLock: `ok_hresult()?`, then the test of cDims, where
\* debug_assert_eq! panics in a debug build.
SafeArray_from_raw(hr, cDims, cElements, b) ==
    IF ~is_ok(hr) THEN Out("Err", hr, 0, <<>>)
    ELSE IF cDims # 1
    THEN IF b = "debug" THEN Out("Panic", 0, 0, <<>>)
         ELSE Out("Err", E_UNEXPECTED, 0, <<>>)
    ELSE Out("Ok", 0, cElements, <<>>)

\* One wrap of a SAFEARRAY: SafeArrayLock is called and answers hr; nothing
\* else is called.
SafeArrayFromRaw ==
    /\ bpc = "start"
    /\ \E hr \in {S_OK, E_INVALIDARG, E_UNEXPECTED}, cDims \in 0..2,
          cElements \in 0..MaxElements :
          LET r == SafeArray_from_raw(hr, cDims, cElements, build)
          IN  /\ input' = [op |-> "SafeArray", cDims |-> cDims,
                           cElements |-> cElements]
              /\ calls' = Append(calls, Call("SafeArrayLock", hr, 0))
              /\ out' = r
              /\ bpc' = CASE r.tag = "Ok" -> "wrapped"
                          [] r.tag = "Panic" -> "panicked"
                          [] OTHER -> "done"
    /\ UNCHANGED <<arch, wf_vars, cl_vars, h_vars, build>>

\* as_slice (lib.rs 968-975): a read of the elements through the wrapper.
SafeArrayRead ==
    /\ bpc = "wrapped"
    /\ Len(calls) <= MaxElements
    /\ calls' = Append(calls, Call("read", S_OK, out.n))
    /\ UNCHANGED <<arch, wf_vars, cl_vars, h_vars, build, bpc, input, out>>

\* The wrapper goes out of scope.
SafeArrayDrop ==
    /\ bpc = "wrapped"
    /\ \E unlocked \in {S_OK, E_UNEXPECTED}, destroyed \in {S_OK, E_UNEXPECTED} :
          calls' = calls \o SafeArray_drop(unlocked, destroyed)
    /\ bpc' = "done"
    /\ UNCHANGED <<arch, wf_vars, cl_vars, h_vars, build, input, out>>

\* Bound on the length of the slices given to WideStr.
MaxSlice == 2

\* The u16 values of the slices: zero and two letters.
Units == {0, 65, 66}

SlicePool == UNION {[1..n -> Units] : n \in 0..MaxSlice}

\* iter().position(|n| n == 0): the index, from 0, of the first zero.
position(u16s) ==
    IF \E i \in 1..Len(u16s) : u16s[i] = 0
    THEN Some((CHOOSE i \in 1..Len(u16s) :
                  u16s[i] = 0 /\ \A j \in 1..(i - 1) : u16s[j] # 0) - 1)
    ELSE None

\* `u16s.len() - 1` on usize: at 0 the subtraction panics where overflow is
\* checked (None) and wraps to usize::MAX elsewhere, written -1 here as no
\* index equals it.
len_minus_1(n, b) ==
    IF n > 0 THEN Some(n - 1) ELSE IF b = "debug" THEN None ELSE Some(0 - 1)

\* WideStr::from_slice_with_nul (lib.rs 67-75) on build b.
from_slice_with_nul(u16s, b) ==
    LET last == len_minus_1(Len(u16s), b)
    IN  IF last = None THEN Out("Panic", 0, 0, <<>>)
        ELSE IF position(u16s) = Some(unwrap(last)) THEN Out("Ok", 0, 0, <<>>)
        ELSE Out("Err", E_INVALIDARG, 0, <<>>)

\* WideStr::from_slice_until_nul (lib.rs 77-84).
from_slice_until_nul(u16s) ==
    IF u16s # <<>> /\ u16s[Len(u16s)] = 0 THEN Out("Ok", 0, 0, <<>>)
    ELSE Out("Err", E_INVALIDARG, 0, <<>>)

\* TryFrom<&[u16]> for WideStr (lib.rs 132-137).
try_from(u16s, b) == from_slice_with_nul(u16s, b)

\* One construction of a WideStr from a slice.
WideStrFromSlice ==
    /\ bpc = "start"
    /\ \E fn \in {"from_slice_with_nul", "from_slice_until_nul", "try_from"},
          u16s \in SlicePool :
          LET r == IF fn = "from_slice_with_nul"
                   THEN from_slice_with_nul(u16s, build)
                   ELSE IF fn = "from_slice_until_nul"
                   THEN from_slice_until_nul(u16s)
                   ELSE try_from(u16s, build)
          IN  /\ input' = [op |-> "WideStr", fn |-> fn, slice |-> u16s]
              /\ out' = r
              /\ bpc' = IF r.tag = "Panic" THEN "panicked" ELSE "done"
    /\ UNCHANGED <<arch, wf_vars, cl_vars, h_vars, build, calls>>

\* No call has been made; the workflow and the classification loop stand
\* still.
InitBinding ==
    /\ arch = "x86_64"
    /\ pc = "binding"
    /\ instances = <<>>
    /\ cur = None
    /\ yielded = 0
    /\ instance = None
    /\ msvc_installed = FALSE
    /\ sdk_installed = FALSE
    /\ json = None
    /\ line = <<>>
    /\ log = <<>>
    /\ result = "Running"
    /\ exit_code = None
    /\ child = None
    /\ packages = <<>>
    /\ msvc = None
    /\ sdk = None
    /\ build \in Builds
    /\ bpc = "start"
    /\ input = NoInput
    /\ calls = <<>>
    /\ out = NoOut
    /\ HandlesIdle

NextBinding ==
    \/ WithComInitialize
    \/ WithComClosure
    \/ WithComReturn
    \/ BatchNext
    \/ BatchPull
    \/ IteratorNext
    \/ IntoVariant
    \/ ReadVariant
    \/ DropVariant
    \/ SafeArrayFromRaw
    \/ SafeArrayRead
    \/ SafeArrayDrop
    \/ WideStrFromSlice

SpecBinding == InitBinding /\ [][NextBinding]_vars

\* ------------------------------------------------------------------------
\* Handles to foreign objects (raw.rs, lib.rs)
\* ------------------------------------------------------------------------

\* Bound on the handles the caller owns at once, those of the buffer included.
MaxHandles == 3

\* E_NOINTERFACE (0x80004002), as i32.
E_NOINTERFACE == -2147467262

\* What a foreign function whose output is an interface pointer answers: a
\* status, and whether it stored a pointer, with a reference taken for the
\* caller. A failing function stores null.
PtrAnswers ==
    {[hr |-> S_OK, ptr |-> TRUE], [hr |-> S_OK, ptr |-> FALSE],
     [hr |-> E_NOINTERFACE, ptr |-> FALSE], [hr |-> E_UNEXPECTED, ptr |-> FALSE]}

\* OkHresult::ok_hresult (lib.rs 1037-1041).
ok_hresult(hr) ==
    IF is_ok(hr) THEN Out("Ok", 0, 0, <<>>) ELSE Out("Err", hr, 0, <<>>)

\* AssertOk::assert_ok (lib.rs 1023-1034) on build b: debug_assert!, then
\* ok_or(E_POINTER).
assert_ok(ptr, b) ==
    IF ptr THEN Out("Ok", 0, 0, <<>>)
    ELSE IF b = "debug" THEN Out("Panic", 0, 0, <<>>)
    ELSE Out("Err", E_POINTER, 0, <<>>)

\* Interface::cast (raw.rs 281-290), given what QueryInterface answered.
cast(hr, ptr) ==
    IF ok_hresult(hr).tag = "Err" THEN ok_hresult(hr)
    ELSE IF ptr THEN Out("Ok", 0, 0, <<>>)
    ELSE Out("Err", E_POINTER, 0, <<>>)

\* `call(&mut out).ok_hresult()?; out.assert_ok()?` (lib.rs 192-199) on
\* build b.
checked_call(hr, ptr, b) ==
    IF ok_hresult(hr).tag = "Err" THEN ok_hresult(hr) ELSE assert_ok(ptr, b)

\* The handles the buffer b holds to object o.
InBuffer(b, o) == Cardinality({i \in 1..Len(b) : b[i] = o})

\* The live handles to object o: the caller's and the buffer's.
Owned(h, b, o) == h[o] + InBuffer(b, o)

RECURSIVE OwnedUpTo(_)
OwnedUpTo(n) ==
    IF n = 0 THEN 0 ELSE Owned(handles, buffer, n) + OwnedUpTo(n - 1)

\* The identities no object has.
FreeIds ==
    {o \in ObjectIds : objects[o].refs = 0 /\ Owned(handles, buffer, o) = 0}

Min(S) == CHOOSE x \in S : \A y \in S : x <= y

\* The k smallest elements of S, in order.
RECURSIVE Smallest(_, _)
Smallest(S, k) ==
    IF k = 0 THEN <<>> ELSE <<Min(S)>> \o Smallest(S \ {Min(S)}, k - 1)

\* The foreign side makes an object and hands out its first reference.
Create(objs, o, kind) == [objs EXCEPT ![o] = [kind |-> kind, refs |-> 1]]

\* IUnknown::AddRef, as QueryInterface calls it on success.
AddRef(objs, o) == [objs EXCEPT ![o].refs = @ + 1]

\* IUnknown::Release: the object destroys itself at zero.
Release(objs, o) ==
    IF objs[o].refs = 1 THEN [objs EXCEPT ![o] = NoObject]
    ELSE [objs EXCEPT ![o].refs = @ - 1]

\* A handle is dropped: its reference is released once.
Handle_drop(objs, o) == Release(objs, o)

\* SetupConfiguration::new (lib.rs 179-190): CoCreateInstance, ok_hresult,
\* assert_ok.
HandleNew ==
    /\ pc = "handles" /\ bpc = "start"
    /\ OwnedUpTo(MaxObjects) < MaxHandles /\ FreeIds # {}
    /\ \E a \in PtrAnswers :
          LET r == checked_call(a.hr, a.ptr, build)
              o == Min(FreeIds)
          IN  /\ input' = [op |-> "new", obj |-> o]
              /\ out' = r
              /\ objects' = IF a.ptr THEN Create(objects, o, "configuration")
                            ELSE objects
              /\ handles' = IF r.tag = "Ok" THEN [handles EXCEPT ![o] = @ + 1]
                            ELSE handles
              /\ bpc' = IF r.tag = "Panic" THEN "panicked" ELSE bpc
    /\ UNCHANGED <<arch, wf_vars, cl_vars, build, calls, buffer>>

\* Interface::cast on a live handle to object o (raw.rs 281-290).
HandleCast ==
    /\ pc = "handles" /\ bpc = "start"
    /\ OwnedUpTo(MaxObjects) < MaxHandles
    /\ \E o \in ObjectIds, a \in PtrAnswers :
          LET r == cast(a.hr, a.ptr)
          IN  /\ handles[o] > 0
              /\ input' = [op |-> "cast", obj |-> o]
              /\ out' = r
              /\ objects' = IF a.ptr THEN AddRef(objects, o) ELSE objects
              /\ handles' = IF r.tag = "Ok" THEN [handles EXCEPT ![o] = @ + 1]
                            ELSE handles
    /\ UNCHANGED <<arch, wf_vars, cl_vars, build, bpc, calls, buffer>>

\* SetupConfiguration::EnumInstances (lib.rs 192-199).
HandleEnumInstances ==
    /\ pc = "handles" /\ bpc = "start"
    /\ OwnedUpTo(MaxObjects) < MaxHandles /\ FreeIds # {}
    /\ \E o \in ObjectIds, a \in PtrAnswers :
          LET r == checked_call(a.hr, a.ptr, build)
              e == Min(FreeIds)
          IN  /\ handles[o] > 0 /\ objects[o].kind = "configuration"
              /\ input' = [op |-> "EnumInstances", obj |-> o]
              /\ out' = r
              /\ objects' = IF a.ptr THEN Create(objects, e, "enumerator")
                            ELSE objects
              /\ handles' = IF r.tag = "Ok" THEN [handles EXCEPT ![e] = @ + 1]
                            ELSE handles
              /\ bpc' = IF r.tag = "Panic" THEN "panicked" ELSE bpc
    /\ UNCHANGED <<arch, wf_vars, cl_vars, build, calls, buffer>>

\* SetupConfiguration::EnumAllInstances (lib.rs 201-209): the cast makes the
\* local handle `setup`, dropped when the function returns or unwinds.
HandleEnumAllInstances ==
    /\ pc = "handles" /\ bpc = "start"
    /\ OwnedUpTo(MaxObjects) < MaxHandles /\ FreeIds # {}
    /\ \E o \in ObjectIds, q \in PtrAnswers, a \in PtrAnswers :
          LET c == cast(q.hr, q.ptr)
              r == IF c.tag = "Ok" THEN checked_call(a.hr, a.ptr, build) ELSE c
              e == Min(FreeIds)
              queried == IF q.ptr THEN AddRef(objects, o) ELSE objects
              made == IF c.tag = "Ok" /\ a.ptr
                      THEN Create(queried, e, "enumerator") ELSE queried
          IN  /\ handles[o] > 0 /\ objects[o].kind = "configuration"
              /\ input' = [op |-> "EnumAllInstances", obj |-> o]
              /\ out' = r
              /\ objects' = IF c.tag = "Ok" THEN Handle_drop(made, o) ELSE made
              /\ handles' = IF r.tag = "Ok" THEN [handles EXCEPT ![e] = @ + 1]
                            ELSE handles
              /\ bpc' = IF r.tag = "Panic" THEN "panicked" ELSE bpc
    /\ UNCHANGED <<arch, wf_vars, cl_vars, build, calls, buffer>>

\* EnumSetupInstances::Next (lib.rs 264-288) on a live enumerator: the
\* caller gives its buffer, a new one of None or the one it gave before; the
\* foreign Next stores `fetched` pointers over the first entries, whatever
\* they held, and answers S_OK for a full batch, S_FALSE for a short one, or
\* a failure with nothing stored.
HandleNext ==
    /\ pc = "handles" /\ bpc = "start"
    /\ \E e \in ObjectIds, len \in 1..MaxBatch, fetched \in 0..MaxBatch,
          failed \in BOOLEAN :
          LET given == IF buffer = <<>> THEN [i \in 1..len |-> 0] ELSE buffer
              n == IF failed THEN 0 ELSE fetched
              hr == IF failed THEN E_UNEXPECTED
                    ELSE IF n = Len(given) THEN S_OK ELSE S_FALSE
              ids == Smallest(FreeIds, n)
              made == [o \in ObjectIds |->
                          IF \E i \in 1..n : ids[i] = o
                          THEN [kind |-> "instance", refs |-> 1]
                          ELSE objects[o]]
          IN  /\ handles[e] > 0 /\ objects[e].kind = "enumerator"
              /\ buffer # <<>> => len = Len(buffer)
              /\ failed => fetched = 0
              /\ fetched <= Len(given) /\ fetched <= Cardinality(FreeIds)
              /\ input' = [op |-> "Next", obj |-> e]
              /\ out' = EnumSetupInstances_Next(Len(given), hr, n)
              /\ objects' = made
              /\ buffer' = [i \in 1..Len(given) |->
                               IF i <= n THEN ids[i] ELSE given[i]]
    /\ UNCHANGED <<arch, wf_vars, cl_vars, build, bpc, calls, handles>>

\* The caller drops one of its handles.
HandleDrop ==
    /\ pc = "handles" /\ bpc = "start"
    /\ \E o \in ObjectIds :
          /\ handles[o] > 0
          /\ input' = [op |-> "drop", obj |-> o]
          /\ out' = NoOut
          /\ handles' = [handles EXCEPT ![o] = @ - 1]
          /\ objects' = Handle_drop(objects, o)
    /\ UNCHANGED <<arch, wf_vars, cl_vars, build, bpc, calls, buffer>>

\* The caller takes a handle out of its buffer and drops it.
BufferTake ==
    /\ pc = "handles" /\ bpc = "start"
    /\ \E i \in 1..Len(buffer) :
          /\ buffer[i] # 0
          /\ input' = [op |-> "drop", obj |-> buffer[i]]
          /\ out' = NoOut
          /\ buffer' = [buffer EXCEPT ![i] = 0]
          /\ objects' = Handle_drop(objects, buffer[i])
    /\ UNCHANGED <<arch, wf_vars, cl_vars, build, bpc, calls, handles>>

\* No object exists and the caller owns no handle; the workflow and the
\* classification loop stand still.
InitHandles ==
    /\ arch = "x86_64"
    /\ pc = "handles"
    /\ instances = <<>>
    /\ cur = None
    /\ yielded = 0
    /\ instance = None
    /\ msvc_installed = FALSE
    /\ sdk_installed = FALSE
    /\ json = None
    /\ line = <<>>
    /\ log = <<>>
    /\ result = "Running"
    /\ exit_code = None
    /\ child = None
    /\ packages = <<>>
    /\ msvc = None
    /\ sdk = None
    /\ build \in Builds
    /\ bpc = "start"
    /\ input = NoInput
    /\ calls = <<>>
    /\ out = NoOut
    /\ HandlesIdle

NextHandles ==
    \/ HandleNew
    \/ HandleCast
    \/ HandleEnumInstances
    \/ HandleEnumAllInstances
    \/ HandleNext
    \/ HandleDrop
    \/ BufferTake

SpecHandles == InitHandles /\ [][NextHandles]_vars

\* ------------------------------------------------------------------------
\* Properties
\* ------------------------------------------------------------------------

\* The kinds of the log entries so far.
Kinds == {log[i].kind : i \in 1..Len(log)}

\* The toolset identifier of the running architecture.
RunningToolsetId == IF arch = "aarch64" THEN MSVC_ARM64 ELSE MSVC_X86_X64

\* The toolset identifier of the other architecture.
ForeignToolsetId == IF arch = "aarch64" THEN MSVC_X86_X64 ELSE MSVC_ARM64

\* The place of a product kind in BuildTools < Enterprise < Professional <
\* Community.
ProductRank(p) ==
    CHOOSE i \in 1..4 :
        <<"BuildTools", "Enterprise", "Professional", "Community">>[i] = p

\* No instance of the list v is preferred to the instance k.
IsMinimum(k, v) ==
    \A i \in 1..Len(v) :
        LET d == v[i]
            same_toolset == (d.msvc = None) = (k.msvc = None)
        IN  /\ ~(d.msvc # None /\ k.msvc = None)
            /\ same_toolset => d.version <= k.version
            /\ (same_toolset /\ d.version = k.version)
                  => ProductRank(d.product_id) >= ProductRank(k.product_id)

\* C1: the instance the workflow keeps is one of the discovered instances and
\* no discovered instance is preferred to it: none has the toolset when the
\* kept one lacks it, none with the same toolset presence has a higher major
\* version, none with the same presence and version has a more preferred
\* product kind.
C1_KeepsMinimum ==
    [][/\ (pc = "collected" /\ pc' = "sorted")
             => /\ IsMinimum(instances'[1], instances)
                /\ \E i \in 1..Len(instances) : instances[i] = instances'[1]
       /\ pc = "sorted" => instance' = Some(instances[1])]_vars

\* C1 witness: the sort put an older instance with the toolset before a newer
\* one without it.
C1_Witness ==
    /\ pc = "sorted"
    /\ Len(instances) >= 2
    /\ instances[1].msvc # None /\ instances[1].version = 16
    /\ instances[2].msvc = None /\ instances[2].version = 17

\* The SDK identifiers of the export document that was read back.
ExportSdkIds ==
    IF json = None \/ unwrap(json) = None THEN {}
    ELSE LET ids == unwrap(unwrap(json))
         IN  {ids[i] : i \in {j \in 1..Len(ids) : Sdk_from_id(ids[j]) # None}}

SdkVersion(id) == unwrap(Sdk_from_id(id)).version

\* The list c holds the toolset of the running architecture iff it was
\* missing, one SDK of the highest exported version iff the probe found no
\* SDK, and nothing else.
ResolvedList(c) ==
    LET tool == {i \in 1..Len(c) : c[i] = RunningToolsetId}
        sdks == {i \in 1..Len(c) : Sdk_from_id(c[i]) # None}
    IN  /\ (tool # {}) <=> ~msvc_installed
        /\ sdk_installed => sdks = {}
        /\ ~sdk_installed =>
              /\ Cardinality(sdks) = 1
              /\ \A i \in sdks :
                    /\ c[i] \in ExportSdkIds
                    /\ \A e \in ExportSdkIds :
                          u32_cmp(SdkVersion(e), SdkVersion(c[i])) # "Greater"
        /\ Cardinality(tool) <= 1
        /\ Len(c) = Cardinality(tool) + Cardinality(sdks)

\* C2: the component list reported to the user and the --add arguments of
\* the modify command hold the toolset identifier of the running architecture
\* iff the selected instance lacked it, exactly one SDK identifier, of the
\* highest version in the export, iff the disk probe found no SDK, and
\* nothing else.
C2_ResolvedComponents ==
    \A i \in 1..Len(log) :
        log[i].kind \in {"found_components", "spawn_modify"}
            => ResolvedList(log[i].components)

\* C2 witness: both were missing, the export held several SDKs, and the
\* modify command was given two components.
C2_Witness ==
    /\ ~msvc_installed /\ ~sdk_installed
    /\ Cardinality(ExportSdkIds) = 3
    /\ \E i \in 1..Len(log) :
          log[i].kind = "spawn_modify" /\ Len(log[i].components) = 2

\* C3: when the selected instance has the toolset and the probe finds the
\* SDK, the workflow ends with Ok and exit status 0; no export or modify
\* process is spawned and no confirmation is asked for or read.
C3_NothingToDo ==
    (msvc_installed /\ sdk_installed) =>
        /\ pc \in {"probed", "returned", "exited"}
        /\ Kinds \cap {"spawn_export", "spawn_modify", "prompt",
                       "read_ok", "read_err"} = {}
        /\ pc = "returned" => result = "Ok"
        /\ pc = "exited" => exit_code = Some(0)

\* C3 witness: the process has exited with both prerequisites found.
C3_Witness == pc = "exited" /\ msvc_installed /\ sdk_installed

\* The answers "y" and "yes" in every ASCII case.
YesAnswers ==
    {<<a>> : a \in {"y", "Y"}}
    \cup {<<a, b, c>> : a \in {"y", "Y"}, b \in {"e", "E"}, c \in {"s", "S"}}

\* The text is an answer of YesAnswers between whitespace.
SaysYes(text) ==
    \E i \in 1..(Len(text) + 1), j \in 0..Len(text) :
        /\ SubSeq(text, i, j) \in YesAnswers
        /\ \A k \in 1..Len(text) : (k < i \/ k > j) => text[k] \in WhiteSpace

\* C4: once the confirmation has been asked for and run_main has returned,
\* the modify process was spawned iff the read succeeded and the line,
\* trimmed, is "y" or "yes" in any ASCII case; for every other answer and for
\* a failed read no modify process was spawned and the exit status is 0.
C4_ModifyIffAccepted ==
    (pc \in {"returned", "exited"} /\ "prompt" \in Kinds) =>
        /\ ("spawn_modify" \in Kinds) <=> ("read_ok" \in Kinds /\ SaysYes(line))
        /\ "spawn_modify" \notin Kinds =>
              /\ result = "Ok"
              /\ pc = "exited" => exit_code = Some(0)

\* ds without its leading zeros.
RECURSIVE strip_zeros(_)
strip_zeros(ds) ==
    IF ds # <<>> /\ Head(ds) = "0" THEN strip_zeros(Tail(ds)) ELSE ds

\* The digits of s when it is decimal digits after an optional '+'.
SignedDigits(s) == IF s # <<>> /\ Head(s) = "+" THEN Tail(s) ELSE s

IsNumeric(s) ==
    /\ SignedDigits(s) # <<>>
    /\ \A i \in 1..Len(SignedDigits(s)) : SignedDigits(s)[i] \in Digits

\* The text before the first '.' of s, when s has a '.'.
BeforeFirstDot(s) ==
    LET dots == {i \in 1..Len(s) : s[i] = "."}
    IN  SubSeq(s, 1, (CHOOSE i \in dots : \A j \in dots : i <= j) - 1)

\* The integer before the first '.' of the version string is below 16.
MajorBelow16(s) ==
    /\ \E i \in 1..Len(s) : s[i] = "."
    /\ IsNumeric(BeforeFirstDot(s))
    /\ strip_zeros(SignedDigits(BeforeFirstDot(s))) \in
          {<<>>} \cup {<<d>> : d \in Digits \ {"0"}}
                 \cup {<<"1", d>> : d \in {"0", "1", "2", "3", "4", "5"}}

\* C5: every instance of the candidate list has a major version of at least
\* 16, and an enumerated instance whose version string has an integer below
\* 16 before its first '.' is not added to the list.
C5_NoLegacyInstance ==
    [][/\ \A i \in 1..Len(instances') : instances'[i].version >= 16
       /\ (pc = "enumerating" /\ cur' # None /\ unwrap(cur').version # None
              /\ MajorBelow16(unwrap(unwrap(cur').version)))
             => instances' = instances]_vars

\* C5 witness: a version 15 instance, healthy otherwise, was enumerated after
\* an accepted one and is not in the list.
C5_Witness ==
    /\ pc = "enumerating"
    /\ cur = Some(Healthy(PRODUCT_BUILD_TOOLS, <<"1","5",".","9",".","2","8","3","0","7">>, FullPackages))
    /\ Len(instances) = 1

\* The number of segments between the '.' of id.
SegmentCount(id) == 1 + Cardinality({i \in 1..Len(id) : id[i] = "."})

\* The text after the last '.' of id (all of id when it has none).
LastSegment(id) ==
    LET dots == {i \in 1..Len(id) : id[i] = "."}
    IN  IF dots = {} THEN id
        ELSE SubSeq(id, (CHOOSE i \in dots : \A j \in dots : j <= i) + 1, Len(id))

\* id is Microsoft.VisualStudio.Component.<SDK family>.<text without '.'>
HasSdkShape(id) ==
    \E family \in {Windows10SDK, Windows11SDK} :
        id = join(<<Microsoft, VisualStudio, Component, family,
                    LastSegment(id)>>, ".")

\* The decimal digits of a u32 given in limbs, without leading zeros (none
\* for 0), by repeated division by 10.
RECURSIVE to_decimal(_)
to_decimal(v) ==
    IF v = <<0, 0>> THEN <<>>
    ELSE LET t == (v[1] % 10) * Limb + v[2]
         IN  to_decimal(<<v[1] \div 10, t \div 10>>) \o <<Printable[17 + (t % 10)]>>

\* s is a decimal number, with an optional '+', whose value fits a u32.
FitsU32(s) ==
    /\ IsNumeric(s)
    /\ LET ds == strip_zeros(SignedDigits(s))
       IN  \/ Len(ds) < 10
           \/ Len(ds) = 10 /\ str_cmp(ds, <<"4","2","9","4","9","6","7","2","9","5">>) # "Greater"

\* s parses as the non-negative integer v.
ParsesAs(s, v) == FitsU32(s) /\ strip_zeros(SignedDigits(s)) = to_decimal(v)

\* The first half of C6: id classifies as an SDK of version v iff it has the
\* SDK shape and its last segment parses as v.
SdkRule(id) ==
    LET r == Sdk_from_id(id)
    IN  /\ r # None => /\ unwrap(r).id = id
                       /\ HasSdkShape(id)
                       /\ ParsesAs(LastSegment(id), unwrap(r).version)
        /\ r = None => ~(HasSdkShape(id) /\ FitsU32(LastSegment(id)))

NearMiss(id) == SegmentCount(id) \in {4, 6} \/ ~IsNumeric(LastSegment(id))

\* What Sdk::from_id and Msvc::from_id return for each identifier of the pool.
SdkOf == [id \in IdPool |-> Sdk_from_id(id)]

MsvcOf == [id \in IdPool |-> Msvc_from_id(id)]

\* The identifiers of the pool for which the SDK rule of C6 holds.
SdkRuleHolds == {id \in IdPool : SdkRule(id)}

NearMisses == {id \in IdPool : NearMiss(id)}

\* The identifiers the classification loop has been given.
SeenIds == {unwrap(packages[i]) : i \in {j \in 1..Len(packages) : packages[j] # None}}

\* C6 as stated: an identifier classifies as an SDK of version v iff it has
\* exactly the five segments Microsoft, VisualStudio, Component, an SDK
\* family and a last segment that parses as v; an identifier with 4 or 6
\* segments or a non-numeric last segment classifies as neither SDK nor
\* toolset.
C6_Original ==
    \A id \in SeenIds :
        /\ id \in SdkRuleHolds
        /\ id \in NearMisses => (SdkOf[id] = None /\ MsvcOf[id] = None)

\* C6 amended: the same rule for SDKs; an identifier with 4 or 6 segments or
\* a non-numeric last segment does not classify as an SDK, and classifies as
\* a toolset only when it is one of the two toolset identifiers.
C6_SdkRule ==
    \A id \in SeenIds :
        /\ id \in SdkRuleHolds
        /\ id \in NearMisses =>
              /\ SdkOf[id] = None
              /\ MsvcOf[id] # None => id \in {MSVC_X86_X64, MSVC_ARM64}

\* C6 witness: the loop was given an SDK identifier, which it recorded, a
\* six-segment near miss of the SDK rule, and the six-segment Arm64 toolset.
C6_Witness ==
    /\ SDK11_22000 \in SeenIds
    /\ sdk # None /\ unwrap(sdk).version = <<0, 22000>>
    /\ MSVC_ARM64 \in SeenIds
    /\ \E id \in SeenIds : SegmentCount(id) = 6 /\ id # MSVC_ARM64

\* C7: the recorded toolset is present iff the list holds the toolset
\* identifier of the running architecture, it is then that architecture's
\* toolset, and an identifier of the other architecture leaves the recorded
\* toolset as it was.
C7_ToolsetOfRunningArch ==
    [][/\ (msvc' # None) <=> (RunningToolsetId' \in SeenIds')
       /\ msvc' # None =>
             msvc' = Some(IF arch' = "aarch64" THEN "Arm64" ELSE "X86X64")
       /\ (Len(packages') = Len(packages) + 1
              /\ packages'[Len(packages')] = Some(ForeignToolsetId))
             => msvc' = msvc]_vars

\* C7 witness: on aarch64 the list held the Arm64 toolset and then the
\* x86/x64 one, and the Arm64 toolset is recorded.
C7_Witness ==
    /\ arch = "aarch64"
    /\ packages = <<Some(MSVC_ARM64), Some(MSVC_X86_X64)>>
    /\ msvc = Some("Arm64")

\* C8: the recorded SDK is absent exactly when no identifier of the list
\* matches the SDK rule; otherwise it is one of the matching identifiers and
\* none of them has a higher version.
C8_HighestSdk ==
    LET matching == {id \in SeenIds : SdkOf[id] # None}
    IN  /\ (sdk = None) <=> (matching = {})
        /\ sdk # None =>
              /\ unwrap(sdk).id \in matching
              /\ unwrap(sdk).version = unwrap(SdkOf[unwrap(sdk).id]).version
              /\ \A id \in matching :
                    u32_cmp(unwrap(SdkOf[id]).version, unwrap(sdk).version)
                        # "Greater"

\* C8 witness: for the versions 18362, 19041, 17763 in this order the
\* recorded SDK is 19041.
C8_Witness ==
    /\ packages = <<Some(SDK10_18362), Some(SDK10_19041), Some(SDK10_17763)>>
    /\ sdk = Some([version |-> <<0, 19041>>, id |-> SDK10_19041])

\* No selection, question, export or modify step has run.
NothingRan ==
    /\ instance = None
    /\ Kinds \cap {"found_msvc", "found_sdk", "finding", "spawn_export",
                   "found_components", "prompt", "read_ok", "read_err",
                   "spawn_modify"} = {}

\* C9: when discovery yields no instance, also because the setup
\* configuration or the enumerator could not be created, run_main returns an
\* error, the process exits with a non-zero status, and no selection,
\* question, export or modify step runs.
C9_NoInstanceIsFatal ==
    [][/\ (pc = "instances" /\ pc' = "collected") => instances' = <<>>
       /\ (pc = "collected" /\ instances = <<>>)
             => (pc' = "returned" /\ result' = "Err" /\ NothingRan')
       /\ (pc = "returned" /\ result = "Err" /\ "not_installed" \in Kinds)
             => /\ pc' = "exited"
                /\ exit_code' # None /\ unwrap(exit_code') # 0
                /\ NothingRan']_vars

\* C9 witness: the process has exited with status 1 after a discovery that
\* kept no instance.
C9_Witness ==
    /\ pc = "exited"
    /\ "not_installed" \in Kinds
    /\ exit_code = Some(1)

\* C10: when the SDK is missing and the export holds no SDK identifier,
\* run_main returns an error (it does not panic), the confirmation is not
\* asked for, and the process reports the error and exits with a non-zero
\* status.
C10_SdkNotFoundIsReported ==
    (json # None /\ unwrap(json) # None /\ ExportSdkIds = {}) =>
        /\ pc \in {"returned", "exited"}
        /\ result = "Err"
        /\ "prompt" \notin Kinds
        /\ pc = "exited" =>
              ("error" \in Kinds /\ exit_code # None /\ exit_code # Some(0))

\* C11: when the export document read back from the config file is empty (it
\* does not deserialize), run_main does not panic: it returns an error, and
\* no modify process is spawned.
C11_EmptyExportIsReported ==
    (json # None /\ unwrap(json) = None) =>
        /\ result = "Err"
        /\ "spawn_modify" \notin Kinds

\* The last entry of the log is of the given kind.
LastKind(kind) == log # <<>> /\ log[Len(log)].kind = kind

\* C12: after an accepting answer the modify command is the last thing the
\* workflow does (nothing is scanned or exported again); when the child was
\* spawned and wait() returned its exit status, whatever that status is,
\* run_main returns Ok and the process exits with status 0.
C12_DoneWhateverTheChild ==
    /\ (pc \in {"returned", "exited"} /\ "prompt" \in Kinds /\ accepted(line))
          => LastKind("spawn_modify")
    /\ child # None =>
          /\ accepted(line)
          /\ LastKind("spawn_modify")
          /\ result = "Ok"
          /\ pc = "exited" => exit_code = Some(0)

\* C12 witness: the modify child exited with a failure status and the
\* process has exited with status 0.
C12_Witness ==
    /\ pc = "exited"
    /\ child # None /\ unwrap(child) # 0
    /\ exit_code = Some(0)

\* C13: CoCreateInstance is called only after CoInitializeEx returned a
\* success status; when CoInitializeEx fails it is the only foreign call,
\* no instance is discovered, no process is spawned and the exit status is
\* the failing HRESULT; CoUninitialize is never called.
C13_InitializeFirst ==
    /\ "CoUninitialize" \notin Called
    /\ "CoCreateInstance" \in Called =>
          (calls[1].fn = "CoInitializeEx" /\ calls[1].hr >= 0)
    /\ (calls # <<>> /\ calls[1].hr < 0) =>
          /\ calls[1].fn = "CoInitializeEx"
          /\ Len(calls) = 1
          /\ pc \in {"returned", "exited"}
          /\ result = "Err"
          /\ instances = <<>> /\ cur = None /\ instance = None
          /\ NothingRan
          /\ pc = "exited" => exit_code = Some(calls[1].hr)

\* C13 witness: CoInitializeEx failed and the process has exited with the
\* failing status.
C13_Witness ==
    /\ pc = "exited"
    /\ calls # <<>> /\ calls[1].hr < 0
    /\ exit_code = Some(calls[1].hr)

\* The number of calls of fn so far.
CountOf(fn) == Cardinality({i \in 1..Len(calls) : calls[i].fn = fn})

\* C14: with_com calls CoInitializeEx first; when that fails it is the only
\* call and the failing status is returned; otherwise the closure runs once,
\* CoUninitialize is called once, after the closure returned, and the value
\* returned is the closure's.
C14_WithComBrackets ==
    (input.op = "with_com") =>
        /\ calls[1].fn = "CoInitializeEx"
        /\ CountOf("CoInitializeEx") = 1
        /\ calls[1].hr < 0 =>
              /\ Len(calls) = 1
              /\ bpc = "done"
              /\ out = Out("Err", calls[1].hr, 0, <<>>)
        /\ calls[1].hr >= 0 =>
              /\ Len(calls) <= 3
              /\ Len(calls) >= 2 => calls[2].fn \in {"f", "f_panic"}
              /\ Len(calls) = 3 =>
                    (calls[2].fn = "f" /\ calls[3].fn = "CoUninitialize")
              /\ bpc = "done" =>
                    /\ Len(calls) = 3
                    /\ out = Out("Ok", 0, calls[2].n, <<>>)
              /\ out.tag = "Ok" => bpc = "done"

\* C14 witness: with_com has returned the closure's value 2 after the
\* teardown, COM having answered S_FALSE to the initialization.
C14_Witness ==
    /\ input.op = "with_com"
    /\ bpc = "done"
    /\ calls[1].hr = S_FALSE
    /\ out = Out("Ok", 0, 2, <<>>)
    /\ calls[Len(calls)].fn = "CoUninitialize"

\* C15: Next returns Ok(None) exactly when the status is S_FALSE, an error
\* carrying the status exactly when the status is a failure, and for every
\* other status a slice of `fetched` items when fetched <= the length of the
\* buffer and Err(E_UNEXPECTED) when fetched is greater.
C15_NextOutcomes ==
    (input.op = "Next" /\ bpc = "done") =>
        /\ out.tag \in {"OkNone", "OkSome", "Err"}
        /\ (out.tag = "OkNone") <=> (input.hr = 1)
        /\ (out.tag = "Err" /\ out.hr = input.hr) <=> (input.hr < 0)
        /\ (input.hr # 1 /\ input.hr >= 0) =>
              IF input.fetched <= input.len
              THEN out.tag = "OkSome" /\ out.n = input.fetched
              ELSE out.tag = "Err" /\ out.hr = -2147418113

\* C15 witness: S_OK with nothing fetched gave the empty slice, which is not
\* the end of the sequence.
C15_Witness ==
    /\ input.op = "Next" /\ bpc = "done"
    /\ input.hr = 0 /\ input.fetched = 0 /\ input.len = MaxBatch
    /\ out.tag = "OkSome" /\ out.n = 0

\* The i-th pull returned S_OK and stored an instance.
PullYields(i) == calls[i].hr = 0 /\ calls[i].n # 0

\* C16: the loop over the iterator gets an item from a pull only when the
\* pull returned S_OK and a non-null item; on S_FALSE, on every other status
\* and on a null item next() returns None, nothing is raised, and the loop
\* has ended: no pull follows.
C16_IteratorEnds ==
    (input.op = "iter") =>
        /\ \A i \in 1..(Len(calls) - 1) : PullYields(i)
        /\ out.tag \in {"Yielded", "End"}
        /\ out.n = Cardinality({i \in 1..Len(calls) : PullYields(i)})
        /\ (bpc = "done") <=> ~PullYields(Len(calls))
        /\ (bpc = "done") <=> (out.tag = "End")
        /\ bpc \in {"iterating", "done"}

\* C16 witness: two items were yielded and a failure status ended the loop.
C16_Witness ==
    /\ input.op = "iter"
    /\ bpc = "done"
    /\ out = Out("End", 0, 2, <<>>)
    /\ calls[Len(calls)].hr < 0

\* C17: the string of a decoded text value is released once over the
\* lifetime of the raw union and the decoded value: not while the decoded
\* value is alive, once when it has been dropped, and it is never read after
\* its release.
C17_TextOwnedOnce ==
    (input.op = "into_variant" /\ input.vt = 8 /\ input.data # NullData) =>
        /\ bpc = "decoded" => Released = 0
        /\ bpc = "done" => Released = 1
        /\ bpc # "crashed"
        /\ \A i \in 1..Len(calls) : calls[i].fn = "read" => calls[i].n = 0

\* C18: the tag decides the kind: 8 text, 11 boolean (true iff the 16 bit
\* payload is not zero), 16, 2, 3 and 20 signed, 17, 18, 19 and 21 unsigned;
\* every other tag gives Unknown in a release build and a panic in a debug
\* build.
C18_TagDecidesKind ==
    (input.op = "into_variant") =>
        /\ input.vt = 8 => (out.tag = "Bstr" /\ out.val = input.data)
        /\ input.vt = 11 =>
              /\ out.tag = "Bool"
              /\ (out.n = 1) <=> (input.data[1] # 0)
              /\ out.n \in {0, 1}
        /\ input.vt \in {16, 2, 3, 20} =>
              (out.tag = "Signed" /\ out.val = input.data)
        /\ input.vt \in {17, 18, 19, 21} =>
              (out.tag = "Unsigned" /\ out.val = input.data)
        /\ input.vt \notin {8, 11, 16, 2, 3, 20, 17, 18, 19, 21} =>
              /\ out.tag = (IF build = "debug" THEN "Panic" ELSE "Unknown")
              /\ (bpc = "panicked") <=> (build = "debug")

\* C18 witness: a release build decoded a tag outside the set as Unknown.
C18_Witness ==
    /\ input.op = "into_variant"
    /\ build = "release"
    /\ input.vt = 9
    /\ out.tag = "Unknown"
    /\ bpc = "done"

\* The calls between the first and the last two are reads of the elements.
ReadsOnly(from, to) == \A i \in from..to : calls[i].fn = "read"

\* C19: a successful wrap has locked the array once; while the wrapper lives
\* nothing but reads follow the lock; dropping it unlocks once and then
\* destroys once, and nothing is read or released after that.
C19_LockUnlockDestroy ==
    (input.op = "SafeArray" /\ out.tag = "Ok") =>
        /\ calls[1] = Call("SafeArrayLock", calls[1].hr, 0)
        /\ calls[1].hr >= 0
        /\ CountOf("SafeArrayLock") = 1
        /\ bpc \in {"wrapped", "done"}
        /\ bpc = "wrapped" =>
              /\ ReadsOnly(2, Len(calls))
        /\ bpc = "done" =>
              /\ Len(calls) >= 3
              /\ ReadsOnly(2, Len(calls) - 2)
              /\ calls[Len(calls) - 1].fn = "SafeArrayUnlock"
              /\ calls[Len(calls)].fn = "SafeArrayDestroy"
              /\ CountOf("SafeArrayUnlock") = 1
              /\ CountOf("SafeArrayDestroy") = 1

\* C19 witness: an array of two elements was wrapped, read and dropped.
C19_Witness ==
    /\ input.op = "SafeArray" /\ out = Out("Ok", 0, 2, <<>>)
    /\ bpc = "done"
    /\ "read" \in Called
    /\ calls[Len(calls)].fn = "SafeArrayDestroy"

\* C20: a WideStr is made from a slice iff the slice ends with a zero
\* element; for every other slice, the empty one included, the result is
\* Err(E_INVALIDARG), and no slice makes the construction panic.
C20_CheckedSlice ==
    (input.op = "WideStr") =>
        /\ out.tag \in {"Ok", "Err"}
        /\ (out.tag = "Ok") <=>
              (input.slice # <<>> /\ input.slice[Len(input.slice)] = 0)
        /\ out.tag = "Err" => out.hr = E_INVALIDARG

\* C21: a cast on a live handle makes a new handle to the same object or
\* fails, and the source handle stays live; a failed cast or call makes no
\* handle and changes no reference count; every object's foreign reference
\* count is the number of live handles to it; a dropped handle releases
\* its reference exactly once.
C21_HandlesAndCounts ==
    [][/\ \A o \in ObjectIds :
             objects'[o].refs = Owned(handles', buffer', o)
       /\ input'.op = "cast" =>
             /\ handles'[input'.obj] >= handles[input'.obj]
             /\ handles'[input'.obj] >= 1
             /\ out'.tag = "Ok" =>
                   /\ handles' = [handles EXCEPT ![input'.obj] = @ + 1]
                   /\ objects' = [objects EXCEPT ![input'.obj].refs = @ + 1]
       /\ (input'.op \in {"cast", "new", "EnumInstances", "EnumAllInstances"}
              /\ out'.tag = "Err")
             => UNCHANGED <<objects, handles, buffer>>
       /\ input'.op = "drop" =>
             objects'[input'.obj].refs = objects[input'.obj].refs - 1]_vars

\* Every extraction the closure performs on r succeeds, and the product
\* identifier is one of the four the workflow knows.
AllExtracted(r) ==
    /\ r.product = "Ok"
    /\ r.product_id \in {Some(PRODUCT_COMMUNITY), Some(PRODUCT_BUILD_TOOLS),
                         Some(PRODUCT_PROFESSIONAL), Some(PRODUCT_ENTERPRISE)}
    /\ r.install_path # None
    /\ r.display_name # None
    /\ r.version # None
    /\ r.properties = "Ok"
    /\ r.setup_engine # "Err"
    /\ r.packages # None
    /\ \A i \in 1..Len(unwrap(r.packages)) : unwrap(r.packages)[i] # None

\* The integer before the first '.' of the version string is in 16..9999.
MajorAtLeast16(s) ==
    /\ \E i \in 1..Len(s) : s[i] = "."
    /\ IsNumeric(BeforeFirstDot(s))
    /\ Len(strip_zeros(SignedDigits(BeforeFirstDot(s)))) \in 2..4
    /\ ~MajorBelow16(s)

\* An instance the discovery pass has to keep.
SoundInstance(r) == AllExtracted(r) /\ MajorAtLeast16(unwrap(r.version))

\* C22: an enumerated instance with a failing extraction does not end the
\* discovery pass, and an instance whose extractions all succeed and whose
\* major version is at least 16 is added to the candidate list, whether it
\* comes before or after a failing one.
C22_DiscoveryGoesOn ==
    [][yielded' = yielded + 1 =>
          /\ pc' = "enumerating"
          /\ SoundInstance(unwrap(cur')) =>
                /\ Len(instances') = Len(instances) + 1
                /\ SubSeq(instances', 1, Len(instances)) = instances
                /\ instances'[Len(instances')].install_path
                      = unwrap(unwrap(cur').install_path)]_vars

\* One of the extractions that precede the component list fails on r: the
\* product reference, the product id, the install path, the display name,
\* the installation version, the property store or the maintenance-tool
\* path value.
EarlyExtractionFails(r) ==
    \/ r.product # "Ok"
    \/ r.product_id = None
    \/ r.install_path = None
    \/ r.display_name = None
    \/ r.version = None
    \/ r.properties # "Ok"
    \/ r.setup_engine = "Err"

\* C23 as stated: an enumerated instance on which one extraction fails, the
\* installed component list included, is not added to the candidate list.
C23_Original ==
    [][(yielded' = yielded + 1
          /\ (EarlyExtractionFails(unwrap(cur')) \/ unwrap(cur').packages = None))
          => instances' = instances]_vars

\* C23: an enumerated instance on which the product reference, the product
\* id, the install path, the display name, the installation version, the
\* property store or the maintenance-tool path value fails is not added to
\* the candidate list.
C23_EarlyFailureDiscards ==
    [][(yielded' = yielded + 1 /\ EarlyExtractionFails(unwrap(cur')))
          => instances' = instances]_vars

\* An instance without a property store was enumerated after a kept one,
\* and the pass went on.
C23_Witness ==
    /\ pc = "enumerating"
    /\ yielded = 2
    /\ Len(instances) = 1
    /\ cur # None
    /\ unwrap(cur).properties # "Ok"
    /\ unwrap(cur).product = "Ok"
    /\ unwrap(cur).version = Some(V17)

\* The places of the component list whose identifier is an SDK match.
SdkMatches ==
    {i \in 1..Len(packages) :
        packages[i] # None /\ SdkOf[unwrap(packages[i])] # None}

SdkAt(i) == unwrap(SdkOf[unwrap(packages[i])])

\* The places of the SDK matches of the highest version.
TopMatches ==
    {i \in SdkMatches :
        \A j \in SdkMatches :
            u32_cmp(SdkAt(j).version, SdkAt(i).version) # "Greater"}

\* C24 as stated: when several SDK matches of the component list share the
\* highest version, the one seen last is kept.
C24_Original ==
    SdkMatches # {} =>
        sdk = Some(SdkAt(CHOOSE i \in TopMatches : \A j \in TopMatches : j <= i))

\* C24: the SDK kept is a match of the highest version, and among the matches
\* that share the highest version it is the one whose identifier is the
\* greatest string, wherever it stands in the list.
C24_GreatestIdWins ==
    SdkMatches # {} =>
        /\ sdk \in {Some(SdkAt(i)) : i \in TopMatches}
        /\ \A j \in TopMatches : str_cmp(SdkAt(j).id, unwrap(sdk).id) # "Greater"

\* Two different identifiers share the highest version and the one kept was
\* seen before the other.
C24_Witness ==
    \E i, j \in TopMatches :
        /\ i < j
        /\ SdkAt(i).id # SdkAt(j).id
        /\ \A k \in TopMatches : k <= j
        /\ sdk = Some(SdkAt(i))

\* C25: a wrap of an array whose number of dimensions is not one returns no
\* wrapper; once the array is locked, a production build returns
\* Err(E_UNEXPECTED) and a debug build fails the assertion; a wrapper is
\* returned only for a one-dimensional array whose lock succeeded.
C25_OneDimensionOnly ==
    (input.op = "SafeArray") =>
        /\ input.cDims # 1 =>
              /\ out.tag # "Ok"
              /\ bpc # "wrapped"
              /\ (is_ok(calls[1].hr) /\ build = "release")
                    => out = Out("Err", E_UNEXPECTED, 0, <<>>)
              /\ (is_ok(calls[1].hr) /\ build = "debug")
                    => out.tag = "Panic" /\ bpc = "panicked"
        /\ out.tag = "Ok" =>
              /\ input.cDims = 1
              /\ calls[1].fn = "SafeArrayLock" /\ is_ok(calls[1].hr)

\* C25 witness: a locked array of two dimensions was refused by a production
\* build.
C25_Witness ==
    /\ input.op = "SafeArray" /\ input.cDims = 2
    /\ build = "release"
    /\ calls = <<Call("SafeArrayLock", S_OK, 0)>>
    /\ out = Out("Err", E_UNEXPECTED, 0, <<>>)

\* The locks held on the array: the SafeArrayLock calls that succeeded less
\* the SafeArrayUnlock calls that succeeded.
LockCount ==
    Cardinality({i \in 1..Len(calls) :
                    calls[i].fn = "SafeArrayLock" /\ is_ok(calls[i].hr)})
    - Cardinality({i \in 1..Len(calls) :
                      calls[i].fn = "SafeArrayUnlock" /\ is_ok(calls[i].hr)})

\* C27: a wrap that returns an error in a production build, because the lock
\* failed or because the array is not one-dimensional, leaves the array's
\* lock count as it was before the call.
C27_FailedWrapHoldsNoLock ==
    (input.op = "SafeArray" /\ build = "release" /\ out.tag = "Err")
        => LockCount = 0

\* The width in bits of the field a signed tag names.
SignedWidth(vt) ==
    CASE vt = VT_I1 -> 8 [] vt = VT_I2 -> 16 [] vt = VT_I4 -> 32 [] OTHER -> 64

\* Signed values around the limits of 8 and 16 bits.
SignedValues == {-32768, -129, -128, -2, -1, 0, 1, 127, 128, 255, 32767}

Representable(v, w) ==
    CASE w = 8 -> v >= -128 /\ v <= 127
      [] w = 16 -> v >= -32768 /\ v <= 32767
      [] OTHER -> TRUE

\* C26: for each signed tag and every value v representable at its width,
\* decoding the union in which v was stored at that width, the other bytes
\* being zero, gives Signed(v): the i64 whose 64 bits are v in two's
\* complement, so a negative v stays negative.
C26_SignedKeepsValue ==
    (input.op = "into_variant" /\ input.vt \in {VT_I1, VT_I2, VT_I4, VT_I8}) =>
        \A v \in SignedValues :
            (Representable(v, SignedWidth(input.vt))
                /\ input.data = Stored(v, SignedWidth(input.vt)))
            => out = Out("Signed", 0, 0, Stored(v, 64))

\* C28: a loop of batch pulls with a buffer of length n > 1, continued until
\* Next reports the end of the sequence, has returned every instance of the
\* sequence in its slices when the foreign cursor answers "no more items"
\* for every batch shorter than n.
C28_NoInstanceWithheld ==
    (input.op = "pulls" /\ bpc = "done") => out.n = input.total

\* How many entries of the log are of the given kind.
CountKind(kind) == Cardinality({i \in 1..Len(log) : log[i].kind = kind})

\* Every entry of kind a stands before every entry of kind b.
Before(a, b) ==
    \A i, j \in 1..Len(log) : (log[i].kind = a /\ log[j].kind = b) => i < j

\* What C29 says of the children apart from when the export is spawned: each
\* is spawned at most once, none before an instance is selected, the export
\* before the question, and the modify command right after a read of the
\* answer, which was accepted.
ChildrenInOrder ==
    /\ CountKind("spawn_export") <= 1
    /\ CountKind("spawn_modify") <= 1
    /\ instance = None => Kinds \cap {"spawn_export", "spawn_modify"} = {}
    /\ Before("spawn_export", "prompt")
    /\ Before("prompt", "spawn_modify")
    /\ "spawn_modify" \in Kinds =>
          /\ "prompt" \in Kinds
          /\ accepted(line)
          /\ LastKind("spawn_modify")
          /\ log[Len(log) - 1].kind \in {"read_ok", "read_err"}

\* The run is over, or has come to the question.
PastResolution == pc \in {"returned", "exited"} \/ "prompt" \in Kinds

\* C29 as stated: the export is spawned iff the probe of the disk did not
\* find the SDK, at most once, after the selection and before the question;
\* the modify command is spawned at most once and only after the answer was
\* read and accepted; no child is spawned before an instance is selected.
C29_Original ==
    /\ ChildrenInOrder
    /\ PastResolution =>
          (("spawn_export" \in Kinds) <=> ("missing_sdk" \in Kinds))

\* C29: the export is spawned only when the probe of the disk did not find
\* the SDK, and when the probe did not find it the workflow comes to the
\* question only after the export was spawned: without the export it ends
\* by a panic, no child having been spawned. Each child is spawned at most
\* once, none before an instance is selected, the export before the
\* question, the modify command only after the answer was read and
\* accepted.
C29_ChildrenOrdered ==
    /\ ChildrenInOrder
    /\ "spawn_export" \in Kinds => "missing_sdk" \in Kinds
    /\ ("missing_sdk" \in Kinds /\ "prompt" \in Kinds)
          => "spawn_export" \in Kinds
    /\ (pc \in {"returned", "exited"} /\ "missing_sdk" \in Kinds
           /\ "spawn_export" \notin Kinds)
          => (result = "Panic" /\ "spawn_modify" \notin Kinds)

\* C29 witness: a run in which the export and then the modify command were
\* spawned has ended.
C29_Witness ==
    /\ pc = "exited"
    /\ "spawn_export" \in Kinds
    /\ LastKind("spawn_modify")
    /\ exit_code = Some(0)

\* C30: no identifier classifies both as an SDK and as a toolset, and once
\* the component list holds the toolset identifier of the running
\* architecture, at whatever place, that toolset is recorded.
C30_ToolsetAlwaysRecorded ==
    /\ \A id \in IdPool : SdkOf[id] = None \/ MsvcOf[id] = None
    /\ \A i \in 1..Len(packages) :
          packages[i] = Some(RunningToolsetId)
              => msvc = Some(Msvc_from_rust_arch(arch))

\* C30 witness: the toolset identifier stood between two SDK identifiers,
\* the second of which replaced the first, and the toolset is recorded.
C30_Witness ==
    /\ Len(packages) = 3
    /\ packages[2] = Some(RunningToolsetId)
    /\ SdkMatches = {1, 3}
    /\ sdk = Some(SdkAt(3))
    /\ sdk # Some(SdkAt(1))
    /\ msvc = Some(Msvc_from_rust_arch(arch))

====
